---- MODULE Spec2Model ----
(***************************************************************************)
(* State-machine model of the SNRG Solana programs: staking, presale,      *)
(* self-rescue registry, timelock, swap and token.  Every handler is one   *)
(* action.  For each handler, <handler>_err gives the outcome the code     *)
(* reaches for a call in the current state: the error of the first failed  *)
(* account constraint or require!, in the code's order, or "Ok".  A Solana *)
(* transaction is atomic, so a call that returns an error commits nothing: *)
(* the action of a handler is enabled exactly when its outcome is "Ok".    *)
(***************************************************************************)
EXTENDS Integers, Sequences, FiniteSets, Bags, TLC

VARIABLES
    now,        \* Clock::get()?.unix_timestamp
    timelock,   \* snrg_timelock: the Timelock account and the Proposal accounts
    tl_hist,    \* history: per proposal, the time and min_delay of its queue_proposal
    tokens,     \* the SPL token accounts: address -> [owner, mint, amount, delegate, delegated_amount]
    registry,   \* self-rescue registry: the Registry account and the Plan accounts
    reg_hist,   \* history: per plan, the initiate_rescue that armed it; the executed rescues
    staking,    \* snrg_staking: the Staking account and the stake records
    stk_hist,   \* history: the number of stakes made, and the stakes that have been settled
    presale,    \* snrg_presale: the Presale, NonceState and BuyerState accounts
    pre_hist,   \* history: per nonce, the purchases that succeeded with it
    lamports,   \* the native balances of the presale's buyers and treasury
    swap,       \* snrg_swap: the Swap account and the UserBurn accounts
    swp_hist,   \* history: the times of the last finalize and the last reopen_finalization
    token_state \* snrg_token: the TokenState account

vars == <<now, timelock, tl_hist, tokens, registry, reg_hist, staking, stk_hist,
          presale, pre_hist, lamports, swap, swp_hist, token_state>>

\* the variables of each program
TimelockVars == <<timelock, tl_hist>>
RegistryVars == <<registry, reg_hist>>
StakingVars == <<staking, stk_hist>>
PresaleVars == <<presale, pre_hist, lamports>>
SwapVars == <<swap, swp_hist>>
TokenVars == <<token_state>>
NotTimelock == <<tokens, RegistryVars, StakingVars, PresaleVars, SwapVars, TokenVars>>
NotRegistry == <<TimelockVars, StakingVars, PresaleVars, SwapVars, TokenVars>>
NotStaking == <<TimelockVars, RegistryVars, PresaleVars, SwapVars, TokenVars>>
NotPresale == <<TimelockVars, RegistryVars, StakingVars, SwapVars, TokenVars>>
NotSwap == <<TimelockVars, RegistryVars, StakingVars, PresaleVars, TokenVars>>
NotToken == <<TimelockVars, RegistryVars, StakingVars, PresaleVars, SwapVars>>

\* Pubkey::default() / [0u8; 32]
DefaultKey == "default"

\* Accounts of one type are a function from address to account data; an address
\* outside its domain holds no initialized account.  NoAccounts is the empty one.
NoAccounts == <<>>

IsAccount(accounts, key) == key \in DOMAIN accounts

\* init / init_if_needed / a write to an account
PutAccount(accounts, key, data) ==
    [k \in DOMAIN accounts \cup {key} |-> IF k = key THEN data ELSE accounts[k]]

DAY == 86400

\* The clock at the start of a behaviour (a unix timestamp later than any
\* cooldown counted from 0), and the horizon of the model in days.
Genesis == 1000 * DAY
MaxDays == 5

Horizon == Genesis + MaxDays * DAY

\* The clock advances by whole days.
Tick ==
    /\ now + DAY <= Horizon
    /\ now' = now + DAY

(***************************************************************************)
(* The SPL token program's Transfer / TransferChecked, as the handlers     *)
(* invoke it by CPI.  `signers` are the keys that sign the CPI: the        *)
(* transaction's signers and the PDAs whose seeds the handler passes.      *)
(***************************************************************************)
\* COption::None
NoDelegate == "None"

TokenAccount(owner, mint, amount) ==
    [owner |-> owner, mint |-> mint, amount |-> amount,
     delegate |-> NoDelegate, delegated_amount |-> 0]

token_transfer_err(accts, from, to, authority, signers, amount) ==
    CASE accts[from].amount < amount -> "TokenInsufficientFunds"
      [] accts[from].mint # accts[to].mint -> "TokenMintMismatch"
      [] accts[from].delegate = authority /\ authority \notin signers
            -> "TokenMissingRequiredSignature"
      [] accts[from].delegate = authority /\ accts[from].delegated_amount < amount
            -> "TokenInsufficientFunds"
      [] accts[from].delegate # authority /\ accts[from].owner # authority
            -> "TokenOwnerMismatch"
      [] accts[from].delegate # authority /\ authority \notin signers
            -> "TokenMissingRequiredSignature"
      [] OTHER -> "Ok"

\* The handlers compare balances before and after a CPI (InexactDelivery,
\* InexactBurn, the delta of stake) because the asset may move less than the
\* amount asked for.  FeeMint is such an asset: each transfer of it withholds
\* 1 token from what the destination is credited.  Every other mint is a
\* standard SPL token.
FeeMint == "fee_mint"

transfer_fee(mint, amount) == IF mint = FeeMint /\ amount > 0 THEN 1 ELSE 0

\* the accounts after a successful transfer
token_transfer(accts, from, to, authority, amount) ==
    IF from = to THEN accts ELSE
    LET debited ==
            [accts EXCEPT
                ![from].amount = @ - amount,
                ![from].delegated_amount =
                    IF accts[from].delegate = authority THEN @ - amount ELSE @,
                ![from].delegate =
                    IF accts[from].delegate = authority
                       /\ accts[from].delegated_amount = amount
                    THEN NoDelegate ELSE @]
    IN  [debited EXCEPT ![to].amount = @ + amount - transfer_fee(accts[to].mint, amount)]

\* Approve / Revoke, signed by the account's owner
token_approve(owner, account, delegate, amount) ==
    /\ tokens[account].owner = owner
    /\ tokens' = [tokens EXCEPT ![account].delegate = delegate,
                                ![account].delegated_amount = amount]

token_revoke(owner, account) ==
    /\ tokens[account].owner = owner
    /\ tokens[account].delegate # NoDelegate
    /\ tokens' = [tokens EXCEPT ![account].delegate = NoDelegate,
                                ![account].delegated_amount = 0]

(***************************************************************************)
(*                              snrg_timelock                              *)
(***************************************************************************)
MIN_DELAY == 2 * 24 * 60 * 60
MAX_DELAY == 30 * 24 * 60 * 60

Multisig == "multisig"
TlCallers == {Multisig, "anyone"}
ProposalIds == {"p1", "p2"}
TlTargets == {"target"}
\* delays offered to initialize / update_delay: in range, too short, too long
TlDelays == {MIN_DELAY, 3 * DAY, DAY, MAX_DELAY + 1, 0}
\* eta offers of queue_proposal, relative to the clock
TlEtaOffsets == {0, DAY, 2 * DAY, 3 * DAY}

\* The calls offered to queue_proposal and update_delay: every well-formed call
\* by the multisig, and one call for each way of being malformed.
TlQueueArgs ==
    [caller : {Multisig}, id : ProposalIds, target : TlTargets, off : TlEtaOffsets]
    \cup [caller : {"anyone"}, id : {"p1"}, target : TlTargets, off : {2 * DAY}]
    \cup [caller : {Multisig}, id : {DefaultKey}, target : TlTargets, off : {2 * DAY}]
    \cup [caller : {Multisig}, id : {"p2"}, target : {DefaultKey}, off : {2 * DAY}]
TlDelayArgs ==
    [caller : {Multisig}, delay : TlDelays]
    \cup [caller : {"anyone"}, delay : {MIN_DELAY}]

\* initialize: the checks on min_delay and multisig
initialize_timelock_err(min_delay, multisig) ==
    CASE ~(min_delay > 0) -> "ZeroDelay"
      [] ~(min_delay >= MIN_DELAY) -> "DelayTooShort"
      [] ~(min_delay <= MAX_DELAY) -> "DelayTooLong"
      [] multisig = DefaultKey -> "ZeroAddress"
      [] OTHER -> "Ok"

TimelockInit ==
    /\ \E d \in TlDelays :
          /\ initialize_timelock_err(d, Multisig) = "Ok"
          /\ timelock = [min_delay |-> d, multisig |-> Multisig,
                         proposals |-> NoAccounts]
    /\ tl_hist = NoAccounts

\* QueueProposal accounts, then the handler's checks, in the code's order
queue_proposal_err(caller, proposal_id, target, eta) ==
    CASE caller # timelock.multisig -> "UnauthorizedCaller"
      [] IsAccount(timelock.proposals, proposal_id) -> "AccountAlreadyInUse"
      [] proposal_id = DefaultKey -> "InvalidProposalId"
      [] target = DefaultKey -> "InvalidTarget"
      [] ~(eta > now) -> "InvalidEta"
      [] ~(eta >= now + timelock.min_delay) -> "EtaTooSoon"
      [] OTHER -> "Ok"

queue_proposal(caller, proposal_id, target, value, data, eta) ==
    LET e == queue_proposal_err(caller, proposal_id, target, eta) IN
    /\ e = "Ok"
    /\ timelock' = [timelock EXCEPT !.proposals =
            PutAccount(@, proposal_id,
                [id |-> proposal_id, target |-> target, value |-> value,
                 data |-> data, eta |-> eta,
                 executed |-> FALSE, cancelled |-> FALSE])]
    /\ tl_hist' = PutAccount(tl_hist, proposal_id,
            [t_queue |-> now, min_delay |-> timelock.min_delay])
    /\ UNCHANGED <<now, NotTimelock>>

\* execute_proposal without its `now >= proposal.eta` check
execute_proposal_err_no_eta(proposal_id) ==
    LET proposal == timelock.proposals[proposal_id] IN
    CASE ~IsAccount(timelock.proposals, proposal_id) -> "AccountNotInitialized"
      [] proposal.id # proposal_id -> "InvalidProposalId"
      [] proposal.executed -> "AlreadyExecuted"
      [] proposal.cancelled -> "ProposalCancelled"
      [] OTHER -> "Ok"

\* execute_proposal without its `!proposal.cancelled` check
execute_proposal_err_no_cancelled(proposal_id) ==
    LET proposal == timelock.proposals[proposal_id] IN
    CASE ~IsAccount(timelock.proposals, proposal_id) -> "AccountNotInitialized"
      [] proposal.id # proposal_id -> "InvalidProposalId"
      [] proposal.executed -> "AlreadyExecuted"
      [] ~(now >= proposal.eta) -> "NotReady"
      [] OTHER -> "Ok"

execute_proposal_err(proposal_id) ==
    LET proposal == timelock.proposals[proposal_id] IN
    CASE ~IsAccount(timelock.proposals, proposal_id) -> "AccountNotInitialized"
      [] proposal.id # proposal_id -> "InvalidProposalId"
      [] proposal.executed -> "AlreadyExecuted"
      [] proposal.cancelled -> "ProposalCancelled"
      [] ~(now >= proposal.eta) -> "NotReady"
      [] OTHER -> "Ok"

execute_proposal(caller, proposal_id) ==
    LET e == execute_proposal_err(proposal_id) IN
    /\ e = "Ok"
    /\ timelock' = [timelock EXCEPT !.proposals[proposal_id].executed = TRUE]
    /\ UNCHANGED <<now, tl_hist, NotTimelock>>

\* cancel_proposal without its `!proposal.executed` check
cancel_proposal_err_no_executed(caller, proposal_id) ==
    LET proposal == timelock.proposals[proposal_id] IN
    CASE caller # timelock.multisig -> "UnauthorizedCaller"
      [] ~IsAccount(timelock.proposals, proposal_id) -> "AccountNotInitialized"
      [] proposal.id # proposal_id -> "InvalidProposalId"
      [] proposal.cancelled -> "AlreadyCancelled"
      [] OTHER -> "Ok"

cancel_proposal_err(caller, proposal_id) ==
    LET proposal == timelock.proposals[proposal_id] IN
    CASE caller # timelock.multisig -> "UnauthorizedCaller"
      [] ~IsAccount(timelock.proposals, proposal_id) -> "AccountNotInitialized"
      [] proposal.id # proposal_id -> "InvalidProposalId"
      [] proposal.executed -> "AlreadyExecuted"
      [] proposal.cancelled -> "AlreadyCancelled"
      [] OTHER -> "Ok"

cancel_proposal(caller, proposal_id) ==
    LET e == cancel_proposal_err(caller, proposal_id) IN
    /\ e = "Ok"
    /\ timelock' = [timelock EXCEPT !.proposals[proposal_id].cancelled = TRUE]
    /\ UNCHANGED <<now, tl_hist, NotTimelock>>

update_delay_err(caller, new_delay) ==
    CASE caller # timelock.multisig -> "UnauthorizedCaller"
      [] ~(new_delay > 0) -> "ZeroDelay"
      [] ~(new_delay >= MIN_DELAY) -> "DelayTooShort"
      [] ~(new_delay <= MAX_DELAY) -> "DelayTooLong"
      [] OTHER -> "Ok"

update_delay(caller, new_delay) ==
    LET e == update_delay_err(caller, new_delay) IN
    /\ e = "Ok"
    /\ timelock' = [timelock EXCEPT !.min_delay = new_delay]
    /\ UNCHANGED <<now, tl_hist, NotTimelock>>

InitTimelock ==
    /\ now = Genesis
    /\ TimelockInit
    /\ tokens = NoAccounts
    /\ registry = NoAccounts /\ reg_hist = NoAccounts
    /\ staking = NoAccounts /\ stk_hist = NoAccounts
    /\ presale = NoAccounts /\ pre_hist = NoAccounts /\ lamports = NoAccounts
    /\ swap = NoAccounts /\ swp_hist = NoAccounts
    /\ token_state = NoAccounts

NextTimelock ==
    \/ Tick /\ UNCHANGED <<TimelockVars, NotTimelock>>
    \/ \E a \in TlQueueArgs :
          queue_proposal(a.caller, a.id, a.target, 0, <<>>, now + a.off)
    \/ \E c \in TlCallers, p \in ProposalIds : execute_proposal(c, p)
    \/ \E c \in TlCallers, p \in ProposalIds : cancel_proposal(c, p)
    \/ \E a \in TlDelayArgs : update_delay(a.caller, a.delay)

SpecTimelock == InitTimelock /\ [][NextTimelock]_vars

\* C9: every step that executes a proposal happens at now >= eta, where
\* eta >= t_queue + (min_delay configured at queue time), so at least MIN_DELAY
\* (2 days) after the proposal was queued, whatever update_delay did since.
C9_ExecuteOnlyAfterDelay ==
    [][\A p \in DOMAIN timelock.proposals :
          (~timelock.proposals[p].executed /\ timelock'.proposals[p].executed)
          => /\ now >= timelock.proposals[p].eta
             /\ timelock.proposals[p].eta >= tl_hist[p].t_queue + tl_hist[p].min_delay
             /\ tl_hist[p].min_delay >= MIN_DELAY
             /\ now >= tl_hist[p].t_queue + MIN_DELAY]_vars

\* a proposal was executed after update_delay changed min_delay since its queueing
C9_Witness ==
    \E p \in DOMAIN timelock.proposals :
        /\ timelock.proposals[p].executed
        /\ timelock.min_delay # tl_hist[p].min_delay

\* C10: a proposal account, once queued, is never re-initialized or removed; its
\* id, target, value, data and eta never change; executed and cancelled are
\* never both true; and once either is true no step changes the proposal.
C10_ProposalStateMachine ==
    [][/\ \A p \in DOMAIN timelock'.proposals :
             ~(timelock'.proposals[p].executed /\ timelock'.proposals[p].cancelled)
       /\ \A p \in DOMAIN timelock'.proposals \ DOMAIN timelock.proposals :
             ~timelock'.proposals[p].executed /\ ~timelock'.proposals[p].cancelled
       /\ \A p \in DOMAIN timelock.proposals :
             LET old == timelock.proposals[p] IN
             /\ p \in DOMAIN timelock'.proposals
             /\ LET new == timelock'.proposals[p] IN
                /\ <<new.id, new.target, new.value, new.data, new.eta>>
                      = <<old.id, old.target, old.value, old.data, old.eta>>
                /\ (old.executed \/ old.cancelled) => new = old]_vars

\* one proposal has been executed and another cancelled
C10_Witness ==
    \E p, q \in DOMAIN timelock.proposals :
        timelock.proposals[p].executed /\ timelock.proposals[q].cancelled

\* C31: a proposal scheduled with a predecessor is neither queued nor executed
\* unless the predecessor is already executed.  queue_proposal takes
\* (proposal_id, target, value, data, eta) and Proposal stores no predecessor,
\* so the dependency "p2 after p1" exists only in the proposer's intention:
\* stated for that pair, every step that queues or executes p2 would happen
\* with p1 executed.
C31_PredecessorExecutedFirst ==
    [][LET queued(t, p) == IsAccount(t.proposals, p)
           executed(t, p) == queued(t, p) /\ t.proposals[p].executed
       IN  (\/ ~queued(timelock, "p2") /\ queued(timelock', "p2")
            \/ ~executed(timelock, "p2") /\ executed(timelock', "p2"))
           => executed(timelock, "p1")]_vars

\* a queued proposal that is neither executed nor cancelled and whose eta has
\* passed
TlMatured(p) ==
    /\ IsAccount(timelock.proposals, p)
    /\ ~timelock.proposals[p].executed
    /\ ~timelock.proposals[p].cancelled
    /\ now >= timelock.proposals[p].eta

\* C39: execute_proposal is open to every caller and cancel_proposal only to
\* the multisig; on a queued proposal whose eta has passed both an execute (any
\* caller) and a cancel (multisig) are accepted, and whichever runs first, the
\* other then fails: execute after cancel with ProposalCancelled, cancel after
\* execute with AlreadyExecuted, in the state right after the first call and
\* in every later state; a call that fails takes no step.
C39_ExecuteCancelRace ==
    /\ [](\A p \in ProposalIds :
            /\ \A c \in TlCallers \ {timelock.multisig} :
                  cancel_proposal_err(c, p) = "UnauthorizedCaller"
            /\ TlMatured(p) =>
                  /\ execute_proposal_err(p) = "Ok"
                  /\ \A c \in TlCallers : ENABLED execute_proposal(c, p)
                  /\ cancel_proposal_err(timelock.multisig, p) = "Ok"
            /\ IsAccount(timelock.proposals, p) =>
                  /\ timelock.proposals[p].executed =>
                        /\ cancel_proposal_err(timelock.multisig, p) = "AlreadyExecuted"
                        /\ execute_proposal_err(p) = "AlreadyExecuted"
                  /\ timelock.proposals[p].cancelled =>
                        /\ execute_proposal_err(p) = "ProposalCancelled"
                        /\ cancel_proposal_err(timelock.multisig, p) = "AlreadyCancelled")
    /\ [][\A p \in ProposalIds :
            TlMatured(p) =>
                /\ (\E c \in TlCallers : execute_proposal(c, p)) =>
                      /\ cancel_proposal_err(timelock.multisig, p)' = "AlreadyExecuted"
                      /\ \A c \in TlCallers : ~(ENABLED cancel_proposal(c, p))'
                /\ cancel_proposal(timelock.multisig, p) =>
                      /\ execute_proposal_err(p)' = "ProposalCancelled"
                      /\ \A c \in TlCallers : ~(ENABLED execute_proposal(c, p))']_vars

\* one proposal was executed and another cancelled after its eta had passed:
\* the cancel of the first and the execute of the second are refused
C39_Witness ==
    \E p, q \in DOMAIN timelock.proposals :
        /\ timelock.proposals[p].executed
        /\ cancel_proposal_err(timelock.multisig, p) = "AlreadyExecuted"
        /\ timelock.proposals[q].cancelled
        /\ now >= timelock.proposals[q].eta
        /\ execute_proposal_err(q) = "ProposalCancelled"

(***************************************************************************)
(*     self_rescue_registry (variant "A") and snrg_self_rescue_registry    *)
(*     (variant "B").  registry.variant says which program is deployed.    *)
(***************************************************************************)
MINIMUM_RESCUE_DELAY == 7 * 86400
MAXIMUM_RESCUE_DELAY == 365 * 86400
RESCUE_COOLDOWN == 90 * 86400
MAX_EXECUTORS == 10

\* ctx.program_id, and the PDA of seeds [b"registry"]: the address of the
\* Registry account and of registry_signer, the authority of the transfer CPI
ProgramId == "program_id"
RegistrySigner == "registry_pda"

RegOwner == "admin"
SnrgMint == "snrg_mint"
OtherMint == "other_mint"
RegUsers == {"alice", "bob", "exec"}

\* The clock of the registry moves between instants a rescue delay apart, in
\* the weeks after Genesis and in the weeks after one RESCUE_COOLDOWN.
RegMaxWeeks == 1
RegInstants ==
    {Genesis + k * MINIMUM_RESCUE_DELAY : k \in 0..RegMaxWeeks}
    \cup {Genesis + RESCUE_COOLDOWN + k * MINIMUM_RESCUE_DELAY : k \in 0..RegMaxWeeks}

RegTick ==
    \E t \in RegInstants :
        /\ t > now
        /\ now' = t

\* the balance of the plan owner's token account at the start
RegBalance == 2
RegAmounts == 0..RegBalance

RegTokensInit ==
    [a \in {"alice_ata", "bob_ata", "exec_ata", "bob_other"} |->
        CASE a = "alice_ata" -> TokenAccount("alice", SnrgMint, RegBalance)
          [] a = "bob_ata" -> TokenAccount("bob", SnrgMint, 0)
          [] a = "exec_ata" -> TokenAccount("exec", SnrgMint, 0)
          [] a = "bob_other" -> TokenAccount("bob", OtherMint, 0)]

\* initialize: A leaves token_mint unset until set_token, B takes it as argument
RegistryInit ==
    /\ \E v \in {"A", "B"} :
          registry = [variant |-> v,
                      owner |-> RegOwner,
                      token_mint |-> IF v = "A" THEN DefaultKey ELSE SnrgMint,
                      max_rescue_amount |-> 0,
                      paused |-> FALSE,
                      executors |-> SetToBag({ProgramId}),
                      plans |-> NoAccounts]
    /\ reg_hist = [armed |-> NoAccounts, eta_at_transfer |-> NoAccounts]

\* has_one = owner of SetExecutor / SetToken (A) and Admin (B)
reg_admin_err(caller) ==
    CASE caller # registry.owner /\ registry.variant = "A" -> "ConstraintHasOne"
      [] caller # registry.owner /\ registry.variant = "B" -> "Unauthorized"
      [] OTHER -> "Ok"

register_plan_err(user, recovery, delay) ==
    IF registry.variant = "A"
    THEN CASE recovery = DefaultKey -> "InvalidRecovery"
           [] recovery = user -> "InvalidRecovery"
           [] ~(delay >= MINIMUM_RESCUE_DELAY) -> "DelayTooShort"
           [] ~(delay <= MAXIMUM_RESCUE_DELAY) -> "DelayTooLong"
           [] registry.paused -> "Paused"
           [] OTHER -> "Ok"
    ELSE CASE registry.paused -> "Paused"
           [] recovery = DefaultKey -> "ZeroAddress"
           [] recovery = user -> "InvalidRecovery"
           [] ~(delay >= MINIMUM_RESCUE_DELAY) -> "DelayTooShort"
           [] ~(delay <= MAXIMUM_RESCUE_DELAY) -> "DelayTooLong"
           [] OTHER -> "Ok"

\* init_if_needed: a new Plan account is zeroed; A resets last_rescue_time, B keeps it
register_plan(user, recovery, delay) ==
    LET e == register_plan_err(user, recovery, delay)
        last_rescue_time ==
            IF registry.variant = "B" /\ IsAccount(registry.plans, user)
            THEN registry.plans[user].last_rescue_time
            ELSE 0
    IN
    /\ e = "Ok"
    /\ registry' = [registry EXCEPT !.plans =
            PutAccount(@, user,
                [owner |-> user, recovery |-> recovery, delay |-> delay,
                 eta |-> 0, last_rescue_time |-> last_rescue_time])]
    /\ UNCHANGED <<now, tokens, reg_hist, NotRegistry>>

initiate_rescue_err(user) ==
    LET plan == registry.plans[user] IN
    CASE ~IsAccount(registry.plans, user) -> "AccountNotInitialized"
      [] registry.paused -> "Paused"
      [] plan.recovery = DefaultKey ->
            IF registry.variant = "A" THEN "NoPlan" ELSE "NoPlanRegistered"
      [] plan.eta # 0 -> "RescueAlreadyActive"
      [] ~(now >= plan.last_rescue_time + RESCUE_COOLDOWN) -> "CooldownActive"
      [] OTHER -> "Ok"

initiate_rescue(user) ==
    LET e == initiate_rescue_err(user) IN
    /\ e = "Ok"
    /\ registry' = [registry EXCEPT
            !.plans[user].last_rescue_time = now,
            !.plans[user].eta = now + registry.plans[user].delay]
    /\ reg_hist' = [reg_hist EXCEPT !.armed =
            PutAccount(@, user,
                [t_init |-> now, delay |-> registry.plans[user].delay, execs |-> 0,
                 cancelled |-> FALSE])]
    /\ UNCHANGED <<now, tokens, NotRegistry>>

cancel_rescue_err(user) ==
    LET plan == registry.plans[user] IN
    CASE ~IsAccount(registry.plans, user) -> "AccountNotInitialized"
      [] plan.eta = 0 ->
            IF registry.variant = "A" THEN "NoActive" ELSE "NoActiveRescue"
      [] OTHER -> "Ok"

\* a cancel_rescue that keeps the cooldown running
cancel_rescue_keeps_cooldown(user) ==
    /\ cancel_rescue_err(user) = "Ok"
    /\ registry' = [registry EXCEPT !.plans[user].eta = 0]
    /\ reg_hist' = [reg_hist EXCEPT !.armed[user].cancelled = TRUE]
    /\ UNCHANGED <<now, tokens, NotRegistry>>

cancel_rescue(user) ==
    LET e == cancel_rescue_err(user) IN
    /\ e = "Ok"
    /\ registry' = [registry EXCEPT
            !.plans[user].eta = 0,
            !.plans[user].last_rescue_time = 0]
    /\ reg_hist' = [reg_hist EXCEPT !.armed[user].cancelled = TRUE]
    /\ UNCHANGED <<now, tokens, NotRegistry>>

\* a maturity check that always passes
rescue_matured_always(plan) == TRUE

\* `now >= plan.eta` of execute_rescue
rescue_matured(plan) == now >= plan.eta

\* the allowance check of execute_rescue: A compares the delegate with
\* ctx.program_id, B with registry_signer.key()
rescue_allowance(victim_token, amount) ==
    /\ tokens[victim_token].delegate =
          (IF registry.variant = "A" THEN ProgramId ELSE RegistrySigner)
    /\ tokens[victim_token].delegated_amount >= amount

\* the errors of the token program: the handler issued the transfer CPI
TokenErrors ==
    {"TokenInsufficientFunds", "TokenMintMismatch", "TokenOwnerMismatch",
     "TokenMissingRequiredSignature"}

rescue_transfer_err(caller, victim_token, recovery_token, amount) ==
    token_transfer_err(tokens, victim_token, recovery_token, RegistrySigner,
                       {caller, RegistrySigner}, amount)

\* an authorization check that lets any signer through
is_authorized_anyone(caller, plan) == TRUE

\* A: registry.executors.contains(&caller) || caller == victim.key()
\*    || caller == plan.recovery, with plan.owner == victim.key();
\* B: is_executor || is_victim || is_recovery
is_authorized(caller, plan) ==
    \/ BagIn(caller, registry.executors)
    \/ caller = plan.owner
    \/ caller = plan.recovery

execute_rescue_err(caller, victim, victim_token, recovery_token, amount) ==
    LET plan == registry.plans[victim]
        transfer == rescue_transfer_err(caller, victim_token, recovery_token, amount)
    IN
    IF registry.variant = "A"
    THEN CASE ~IsAccount(registry.plans, victim) -> "AccountNotInitialized"
           [] ~IsAccount(tokens, victim_token) -> "AccountNotInitialized"
           [] ~IsAccount(tokens, recovery_token) -> "AccountNotInitialized"
           [] ~(amount > 0) -> "InvalidAmount"
           [] registry.paused -> "Paused"
           [] ~(plan.eta # 0 /\ rescue_matured(plan)) -> "NotMatured"
           [] plan.recovery = DefaultKey -> "NoPlan"
           [] ~is_authorized(caller, plan) -> "NotExecutor"
           [] registry.max_rescue_amount > 0
              /\ ~(amount <= registry.max_rescue_amount) -> "ExceedsMaxRescue"
           [] tokens[victim_token].mint # registry.token_mint -> "InvalidMint"
           [] tokens[recovery_token].mint # registry.token_mint -> "InvalidMint"
           [] tokens[victim_token].owner # victim -> "InvalidOwner"
           [] ~(tokens[victim_token].amount >= amount) -> "InsufficientBalance"
           [] ~rescue_allowance(victim_token, amount) -> "InsufficientAllowance"
           [] OTHER -> transfer
    ELSE CASE ~IsAccount(registry.plans, victim) -> "AccountNotInitialized"
           [] ~IsAccount(tokens, victim_token) -> "AccountNotInitialized"
           [] ~IsAccount(tokens, recovery_token) -> "AccountNotInitialized"
           [] registry.paused -> "Paused"
           [] ~(amount > 0) -> "ZeroAmount"
           [] plan.eta = 0 -> "NoActiveRescue"
           [] ~rescue_matured(plan) -> "NotMatured"
           [] ~is_authorized(caller, plan) -> "UnauthorizedCaller"
           [] registry.max_rescue_amount > 0
              /\ ~(amount <= registry.max_rescue_amount) -> "ExceedsMaxRescue"
           [] tokens[victim_token].mint # registry.token_mint -> "InvalidMint"
           [] tokens[victim_token].owner # plan.owner -> "InvalidOwner"
           [] ~(tokens[victim_token].amount >= amount) -> "InsufficientBalance"
           [] ~rescue_allowance(victim_token, amount) -> "InsufficientAllowance"
           [] OTHER -> transfer

\* a handler that leaves the plan armed when it issues the transfer
plan_at_transfer_armed(plan) == plan

\* `plan.eta = 0`, written before the CPI: the plan as the transfer finds it
plan_at_transfer(plan) == [plan EXCEPT !.eta = 0]

execute_rescue(caller, victim, victim_token, recovery_token, amount) ==
    LET e == execute_rescue_err(caller, victim, victim_token, recovery_token, amount)
        plan == plan_at_transfer(registry.plans[victim])
    IN
    /\ e = "Ok"
    /\ registry' = [registry EXCEPT !.plans[victim] = plan]
    /\ tokens' = token_transfer(tokens, victim_token, recovery_token,
                                RegistrySigner, amount)
    /\ reg_hist' = [reg_hist EXCEPT
            !.armed = IF IsAccount(@, victim)
                      THEN [@ EXCEPT ![victim].execs = @ + 1]
                      ELSE @,
            !.eta_at_transfer = PutAccount(@, victim, plan.eta)]
    /\ UNCHANGED <<now, NotRegistry>>

\* The executors of A are a Vec<Pubkey> and those of B a BTreeSet<Pubkey>: both
\* are held as a bag (key -> number of copies), the order of a Vec being read
\* by no handler.  B's Registry account is allotted EXECUTORS_SPACE bytes for
\* the set, which borsh writes as a u32 length and 32 bytes per key; an account
\* that outgrows its space fails to serialize when the instruction exits.
EXECUTORS_SPACE == 200
executors_fit(n) == 4 + 32 * n <= EXECUTORS_SPACE

set_executor_err(caller, exec, enabled) ==
    CASE reg_admin_err(caller) # "Ok" -> reg_admin_err(caller)
      [] exec = DefaultKey ->
            IF registry.variant = "A" THEN "InvalidExecutor" ELSE "ZeroAddress"
      [] enabled /\ BagIn(exec, registry.executors) ->
            IF registry.variant = "A" THEN "ExecutorAlreadyExists"
            ELSE "ExecutorAlreadySet"
      [] enabled /\ registry.variant = "A"
         /\ ~(BagCardinality(registry.executors) < MAX_EXECUTORS) -> "TooManyExecutors"
      [] enabled /\ registry.variant = "B"
         /\ ~executors_fit(BagCardinality(registry.executors) + 1)
            -> "AccountDidNotSerialize"
      [] ~enabled /\ registry.variant = "A" /\ ~BagIn(exec, registry.executors)
            -> "ExecutorNotFound"
      [] OTHER -> "Ok"

\* the events a set_executor call emits: emit!(ExecutorSet) is the handler's
\* last statement before Ok(())
set_executor_events(caller, exec, enabled) ==
    IF set_executor_err(caller, exec, enabled) = "Ok"
    THEN <<[event |-> "ExecutorSet", executor |-> exec, enabled |-> enabled]>>
    ELSE <<>>

\* push / insert, and retain(|e| *e != exec) / remove
set_executor(caller, exec, enabled) ==
    LET e == set_executor_err(caller, exec, enabled) IN
    /\ e = "Ok"
    /\ registry' = [registry EXCEPT !.executors =
            IF enabled
            THEN IF registry.variant = "B" /\ BagIn(exec, @)
                 THEN @ ELSE @ (+) SetToBag({exec})
            ELSE [k \in DOMAIN @ \ {exec} |-> @[k]]]
    /\ UNCHANGED <<now, tokens, reg_hist, NotRegistry>>

\* set_token exists in A only
set_token_err(caller, token_mint) ==
    CASE registry.variant # "A" -> "InstructionFallbackNotFound"
      [] reg_admin_err(caller) # "Ok" -> reg_admin_err(caller)
      [] token_mint = DefaultKey -> "InvalidToken"
      [] registry.token_mint # DefaultKey -> "TokenAlreadySet"
      [] OTHER -> "Ok"

set_token(caller, token_mint) ==
    LET e == set_token_err(caller, token_mint) IN
    /\ e = "Ok"
    /\ registry' = [registry EXCEPT !.token_mint = token_mint]
    /\ UNCHANGED <<now, tokens, reg_hist, NotRegistry>>

set_max_rescue_amount_err(caller, max_amount) ==
    CASE reg_admin_err(caller) # "Ok" -> reg_admin_err(caller)
      [] ~(max_amount > 0) ->
            IF registry.variant = "A" THEN "InvalidAmount" ELSE "ZeroAmount"
      [] OTHER -> "Ok"

set_max_rescue_amount(caller, max_amount) ==
    LET e == set_max_rescue_amount_err(caller, max_amount) IN
    /\ e = "Ok"
    /\ registry' = [registry EXCEPT !.max_rescue_amount = max_amount]
    /\ UNCHANGED <<now, tokens, reg_hist, NotRegistry>>

reg_pause_err(caller) ==
    CASE reg_admin_err(caller) # "Ok" -> reg_admin_err(caller)
      [] registry.paused -> "AlreadyPaused"
      [] OTHER -> "Ok"

reg_pause(caller) ==
    LET e == reg_pause_err(caller) IN
    /\ e = "Ok"
    /\ registry' = [registry EXCEPT !.paused = TRUE]
    /\ UNCHANGED <<now, tokens, reg_hist, NotRegistry>>

reg_unpause_err(caller) ==
    CASE reg_admin_err(caller) # "Ok" -> reg_admin_err(caller)
      [] ~registry.paused -> "NotPaused"
      [] OTHER -> "Ok"

reg_unpause(caller) ==
    LET e == reg_unpause_err(caller) IN
    /\ e = "Ok"
    /\ registry' = [registry EXCEPT !.paused = FALSE]
    /\ UNCHANGED <<now, tokens, reg_hist, NotRegistry>>

\* The calls offered to the registry.
RegCallers == RegUsers \cup {RegOwner}
RegPlanArgs ==
    [user : {"alice"}, recovery : {"bob"},
     delay : {MINIMUM_RESCUE_DELAY, 2 * MINIMUM_RESCUE_DELAY}]
    \cup [user : {"alice"}, recovery : {DefaultKey, "alice"},
          delay : {MINIMUM_RESCUE_DELAY}]
    \cup [user : {"alice"}, recovery : {"bob"},
          delay : {MINIMUM_RESCUE_DELAY - 1, MAXIMUM_RESCUE_DELAY + 1}]
RegExecArgs ==
    [caller : RegUsers, victim : {"alice", "bob"},
     from : {"alice_ata", "bob_ata"},
     to : {"bob_ata", "exec_ata", "alice_ata", "bob_other"},
     amount : RegAmounts]
RegDelegates == {RegistrySigner, ProgramId}

InitRegistry ==
    /\ now = Genesis
    /\ tokens = RegTokensInit
    /\ RegistryInit
    /\ timelock = NoAccounts /\ tl_hist = NoAccounts
    /\ staking = NoAccounts /\ stk_hist = NoAccounts
    /\ presale = NoAccounts /\ pre_hist = NoAccounts /\ lamports = NoAccounts
    /\ swap = NoAccounts /\ swp_hist = NoAccounts
    /\ token_state = NoAccounts

NextRegistry ==
    \/ RegTick /\ UNCHANGED <<tokens, RegistryVars, NotRegistry>>
    \/ \E d \in RegDelegates, n \in {1, RegBalance} :
          /\ token_approve("alice", "alice_ata", d, n)
          /\ UNCHANGED <<now, RegistryVars, NotRegistry>>
    \/ /\ token_revoke("alice", "alice_ata")
       /\ UNCHANGED <<now, RegistryVars, NotRegistry>>
    \/ \E a \in RegPlanArgs : register_plan(a.user, a.recovery, a.delay)
    \/ \E u \in RegUsers : initiate_rescue(u)
    \/ \E u \in RegUsers : cancel_rescue(u)
    \/ \E a \in RegExecArgs :
          execute_rescue(a.caller, a.victim, a.from, a.to, a.amount)
    \/ \E c \in RegCallers, x \in {"exec", DefaultKey}, b \in BOOLEAN :
          set_executor(c, x, b)
    \/ \E c \in RegCallers, m \in {SnrgMint, DefaultKey} : set_token(c, m)
    \/ \E c \in RegCallers, n \in 0..1 : set_max_rescue_amount(c, n)
    \/ \E c \in RegCallers : reg_pause(c)
    \/ \E c \in RegCallers : reg_unpause(c)

SpecRegistry == InitRegistry /\ [][NextRegistry]_vars

\* the outcome of one offered execute_rescue call in the current state
RescueOutcome(a) == execute_rescue_err(a.caller, a.victim, a.from, a.to, a.amount)

\* the handler passed all its own checks and issued the transfer
TransferIssued(e) == e \in {"Ok"} \cup TokenErrors

\* C5: execute_rescue gets as far as its transfer (and so can succeed) only on
\* a plan armed by an initiate_rescue at t_init, at a time now >= t_init + delay
\* with delay the plan's delay at that initiation, within [7 days, 365 days]: no
\* rescue is executed less than 7 days after it was initiated.
C5_RescueOnlyAfterDelay ==
    \A a \in RegExecArgs :
        TransferIssued(RescueOutcome(a))
        => /\ IsAccount(reg_hist.armed, a.victim)
           /\ LET h == reg_hist.armed[a.victim] IN
              /\ h.delay >= MINIMUM_RESCUE_DELAY
              /\ h.delay <= MAXIMUM_RESCUE_DELAY
              /\ now >= h.t_init + h.delay
              /\ now >= h.t_init + MINIMUM_RESCUE_DELAY

\* a rescue was executed on a plan armed with a delay above the minimum
C5_Witness ==
    \E p \in DOMAIN reg_hist.armed :
        /\ reg_hist.armed[p].execs >= 1
        /\ reg_hist.armed[p].delay > MINIMUM_RESCUE_DELAY

\* C6: an execute_rescue(amount) succeeds only if the victim's token account
\* has delegated at least amount to the registry PDA that signs the transfer,
\* holds at least amount, and amount respects a set max_rescue_amount; a call
\* that misses one of these is rejected by the registry's own checks.
C6_AllowanceGuard ==
    \A a \in RegExecArgs :
        LET e == RescueOutcome(a)
            covered ==
                /\ IsAccount(tokens, a.from)
                /\ tokens[a.from].delegate = RegistrySigner
                /\ tokens[a.from].delegated_amount >= a.amount
                /\ tokens[a.from].amount >= a.amount
                /\ (registry.max_rescue_amount > 0
                       => a.amount <= registry.max_rescue_amount)
        IN  /\ e = "Ok" => covered
            /\ ~covered => ~TransferIssued(e)

\* C7: an execute_rescue succeeds only from a token account owned by the plan
\* owner into a token account owned by the plan's recovery address.
C7_RescueCreditsRecovery ==
    \A a \in RegExecArgs :
        RescueOutcome(a) = "Ok"
        => /\ tokens[a.from].owner = registry.plans[a.victim].owner
           /\ tokens[a.to].owner = registry.plans[a.victim].recovery

\* C8: per initiate_rescue at most one execute_rescue succeeds; every transfer
\* is issued from a plan whose eta is already 0; and after a rescue no
\* execute_rescue on the plan reaches its transfer until it is initiated again.
C8_OneRescuePerInitiation ==
    /\ \A p \in DOMAIN reg_hist.armed : reg_hist.armed[p].execs <= 1
    /\ \A p \in DOMAIN reg_hist.eta_at_transfer : reg_hist.eta_at_transfer[p] = 0
    /\ \A a \in RegExecArgs :
          (IsAccount(reg_hist.armed, a.victim) /\ reg_hist.armed[a.victim].execs >= 1)
          => /\ registry.plans[a.victim].eta = 0
             /\ ~TransferIssued(RescueOutcome(a))

\* a rescue was executed, and balance and allowance are left for another one
C8_Witness ==
    \E p \in DOMAIN reg_hist.armed :
        /\ reg_hist.armed[p].execs = 1
        /\ ~registry.paused
        /\ \E t \in DOMAIN tokens :
              /\ tokens[t].owner = p
              /\ tokens[t].amount >= 1
              /\ tokens[t].delegate = RegistrySigner
              /\ tokens[t].delegated_amount >= 1

\* every check of execute_rescue other than those on plan.eta passes for the
\* offered call a
RescueOtherwiseValid(a) ==
    /\ IsAccount(registry.plans, a.victim)
    /\ IsAccount(tokens, a.from)
    /\ IsAccount(tokens, a.to)
    /\ a.amount > 0
    /\ ~registry.paused
    /\ LET plan == registry.plans[a.victim] IN
       /\ plan.recovery # DefaultKey
       /\ is_authorized(a.caller, plan)
       /\ (registry.max_rescue_amount > 0 => a.amount <= registry.max_rescue_amount)
       /\ tokens[a.from].mint = registry.token_mint
       /\ (registry.variant = "A" => tokens[a.to].mint = registry.token_mint)
       /\ tokens[a.from].owner = plan.owner
       /\ tokens[a.from].amount >= a.amount
       /\ rescue_allowance(a.from, a.amount)

\* C24: an execute_rescue call that passes every other check of the handler
\* fails with NotMatured while the plan is armed and now < eta, fails with the
\* no-active-rescue error when eta = 0, and goes through to its transfer,
\* succeeding when the token program carries it out, once now >= eta.
C24_ExecuteOutcomes ==
    \A a \in RegExecArgs :
        RescueOtherwiseValid(a) =>
            LET plan == registry.plans[a.victim] IN
            /\ (plan.eta # 0 /\ now < plan.eta) => RescueOutcome(a) = "NotMatured"
            /\ plan.eta = 0 => RescueOutcome(a) \in {"NoActive", "NoActiveRescue"}
            /\ (plan.eta # 0 /\ now >= plan.eta)
                  => RescueOutcome(a) = rescue_transfer_err(a.caller, a.from, a.to, a.amount)

\* C25: cancel_rescue leaves eta = 0 and last_rescue_time = 0, and the plan's
\* owner can initiate again at once: unless the registry is paused, an
\* initiate_rescue on the plan succeeds in the state cancel_rescue leaves and
\* in every later state in which the plan is still unarmed with
\* last_rescue_time = 0.
C25_CancelReleasesCooldown ==
    /\ [][\A u \in RegUsers :
            cancel_rescue(u) =>
                /\ registry.plans[u].eta # 0
                /\ registry'.plans[u].eta = 0
                /\ registry'.plans[u].last_rescue_time = 0
                /\ ~registry.paused => initiate_rescue_err(u)' = "Ok"]_vars
    /\ [](\A u \in RegUsers :
            (/\ IsAccount(registry.plans, u)
             /\ IsAccount(reg_hist.armed, u)
             /\ registry.plans[u].eta = 0
             /\ registry.plans[u].last_rescue_time = 0
             /\ ~registry.paused)
                => initiate_rescue_err(u) = "Ok")

\* register -> initiate -> cancel: the rescue was cancelled less than
\* RESCUE_COOLDOWN after its initiation, and initiate_rescue succeeds
C25_Witness ==
    \E u \in RegUsers :
        /\ IsAccount(reg_hist.armed, u)
        /\ reg_hist.armed[u].cancelled
        /\ registry.plans[u].eta = 0
        /\ now < reg_hist.armed[u].t_init + RESCUE_COOLDOWN
        /\ initiate_rescue_err(u) = "Ok"

\* C26: an initiate_rescue on a plan whose previous initiation was not
\* cancelled since succeeds only RESCUE_COOLDOWN or more after that
\* initiation, whether or not the rescue was executed and whatever was called
\* in between.
C26_InitiationsCooldownApart ==
    [][\A u \in RegUsers :
          (/\ initiate_rescue(u)
           /\ IsAccount(reg_hist.armed, u)
           /\ ~reg_hist.armed[u].cancelled)
              => now >= reg_hist.armed[u].t_init + RESCUE_COOLDOWN]_vars

\* the plan of victim is armed and its delay has passed
RescueMatured(victim) ==
    /\ IsAccount(registry.plans, victim)
    /\ registry.plans[victim].eta # 0
    /\ now >= registry.plans[victim].eta

\* the caller is an executor, the plan's owner or its recovery address
RescueCallerAllowed(a) ==
    LET plan == registry.plans[a.victim] IN
    \/ BagIn(a.caller, registry.executors)
    \/ a.caller = plan.owner
    \/ a.caller = plan.recovery

C28_PlanStateMachine ==
    [][/\ \A u \in DOMAIN registry'.plans :
             (~IsAccount(registry.plans, u) \/ registry.plans[u].eta = 0)
             /\ registry'.plans[u].eta # 0
                 => initiate_rescue(u)
       /\ \A u \in DOMAIN registry.plans :
             registry.plans[u].eta # 0 =>
                 \/ registry'.plans[u] = registry.plans[u]
                 \/ /\ \/ cancel_rescue(u)
                       \/ \E a \in RegExecArgs :
                             /\ a.victim = u
                             /\ execute_rescue(a.caller, a.victim, a.from, a.to, a.amount)
                    /\ registry'.plans[u].eta = 0
                    /\ registry'.plans[u].delay = registry.plans[u].delay
                    /\ registry'.plans[u].recovery = registry.plans[u].recovery]_vars

\* The administration of the executor set on its own: the owner and a stranger
\* add and remove the program id, eleven other keys and the zero key, in any
\* order.
RegExecKeys ==
    {ProgramId, DefaultKey,
     "e1", "e2", "e3", "e4", "e5", "e6", "e7", "e8", "e9", "e10", "e11"}
RegExecSetCallers == {RegOwner, "alice"}

NextRegistryExecutors ==
    \E c \in RegExecSetCallers, x \in RegExecKeys, b \in BOOLEAN :
        set_executor(c, x, b)

SpecRegistryExecutors == InitRegistry /\ [][NextRegistryExecutors]_vars

\* C32: the executor set never holds more than MAX_EXECUTORS (10) entries, the
\* program id inserted by initialize included, and never a key twice;
\* set_executor(exec, true) for a member and set_executor(exec, false) for a
\* non-member are rejected and emit no ExecutorSet event (a rejected
\* instruction changes no account).
C32_ExecutorSetBounded ==
    /\ BagCardinality(registry.executors) <= MAX_EXECUTORS
    /\ \A k \in DOMAIN registry.executors : registry.executors[k] = 1
    /\ \A c \in RegExecSetCallers, x \in RegExecKeys :
          LET enabled == ~BagIn(x, registry.executors) IN
          \* adding a member / removing a non-member
          /\ set_executor_err(c, x, ~enabled) # "Ok"
          /\ set_executor_events(c, x, ~enabled) = <<>>

(***************************************************************************)
(*  snrg_staking: src/solana/programs/snrg_staking (variant "A") and       *)
(*  src/networks/solana/programs/snrg_staking (variant "B").               *)
(*  A keeps one StakeAccount per stake, at the PDA of (user, timestamp),    *)
(*  and closes it when the stake is settled; B keeps a Vec<Stake> per user. *)
(***************************************************************************)
EARLY_WITHDRAWAL_FEE_BPS == 500
EMERGENCY_FEE_BPS == 1000
BPS_DENOMINATOR == 10000

Treasury == "treasury"
\* the PDA of seeds [b"staking", treasury]: the Staking account's address and
\* the identity the vault transfers are signed for
StakingSigner == "staking_pda"
StkUsers == {"alice", "bob"}

\* the reward rate table set by initialize: duration in days -> bps
reward_rates ==
    IF staking.variant = "A"
    THEN (30 :> 125) @@ (60 :> 250) @@ (90 :> 375) @@ (180 :> 500)
    ELSE (30 :> 125) @@ (60 :> 250) @@ (90 :> 375) @@ (180 :> 750)

\* The clock of the staking program moves between instants one offered
\* duration (180 days) apart.
StkMaxTerms == 1
StkInstants == {Genesis + 180 * j * DAY : j \in 0..StkMaxTerms}

StkTick ==
    \E t \in StkInstants :
        /\ t > now
        /\ now' = t

\* the stakes made in one behaviour, and the largest reward_reserve
StkMaxStakes == 2
StkMaxReserve == 1

\* balances at the start: the treasury can fund the largest reserve and top it
\* up once, alice can hold a stake of each offered amount and bob one
StkTreasuryBalance == StkMaxReserve + 1
StkAliceBalance == 20 + 19
StkBobBalance == StkAliceBalance - 19

StkTokensOf(mint) ==
    [a \in {"vault", "treasury_ata", "alice_ata", "bob_ata"} |->
        CASE a = "vault" -> TokenAccount(StakingSigner, mint, 0)
          [] a = "treasury_ata" -> TokenAccount(Treasury, mint, StkTreasuryBalance)
          [] a = "alice_ata" -> TokenAccount("alice", mint, StkAliceBalance)
          [] a = "bob_ata" -> TokenAccount("bob", mint, StkBobBalance)]

StkTokensInit == StkTokensOf(SnrgMint)

\* initialize: A leaves snrg_mint unset until set_snrg_mint, B takes the mint account
StakingInit ==
    /\ \E v \in {"A", "B"} :
          staking = [variant |-> v,
                     treasury |-> Treasury,
                     snrg_mint |-> IF v = "A" THEN DefaultKey ELSE tokens["vault"].mint,
                     is_funded |-> FALSE,
                     paused |-> FALSE,
                     reward_reserve |-> 0,
                     promised_rewards |-> 0,
                     stakes |-> NoAccounts,
                     user_stakes |-> [u \in StkUsers |-> <<>>]]
    /\ stk_hist = [staked |-> 0, settled |-> {}]

\* The account contexts of B other than Initialize are not in the source
\* ("fully implemented in production version").  They are taken to bind the
\* configured vault, the treasury's token account and the caller's own token
\* account and UserStakes, to make the vault's owner the PDA that
\* _transfer_from_vault signs for, and to have the treasury sign
\* fund_contract, top_up_reserves, pause and unpause.
StkContextB(caller, from_token, staking_vault, treasury_token) ==
    /\ staking_vault = "vault"
    /\ treasury_token = "treasury_ata"
    /\ IsAccount(tokens, from_token)
    /\ tokens[from_token].owner = caller

StkAdminB(caller) == caller = staking.treasury

\* constraint = authority.key() == staking.treasury (SetSnrgMint, AdminAction)
stk_admin_err(caller) ==
    CASE staking.variant = "A" /\ caller # staking.treasury -> "ConstraintRaw"
      [] staking.variant = "B" /\ ~StkAdminB(caller) -> "ConstraintRaw"
      [] OTHER -> "Ok"

set_snrg_mint_err(caller, snrg_mint) ==
    CASE staking.variant # "A" -> "InstructionFallbackNotFound"
      [] stk_admin_err(caller) # "Ok" -> stk_admin_err(caller)
      [] snrg_mint = DefaultKey -> "InvalidMint"
      [] staking.snrg_mint # DefaultKey -> "SnrgAlreadySet"
      [] OTHER -> "Ok"

set_snrg_mint(caller, snrg_mint) ==
    LET e == set_snrg_mint_err(caller, snrg_mint) IN
    /\ e = "Ok"
    /\ staking' = [staking EXCEPT !.snrg_mint = snrg_mint]
    /\ UNCHANGED <<now, tokens, stk_hist, NotStaking>>

\* u64 amounts are kept at U64Bits bits: u64::MAX is U64_MAX
U64Bits == 30
U64_MAX == (2 ^ (U64Bits - 1) - 1) + 2 ^ (U64Bits - 1)

\* arithmetic that stops at u64::MAX instead of failing
saturating_mul(a, b) == IF b > 0 /\ a > U64_MAX \div b THEN <<U64_MAX>> ELSE <<a * b>>
saturating_add(a, b) == IF a > U64_MAX - b THEN <<U64_MAX>> ELSE <<a + b>>

\* u64::checked_mul, checked_div, checked_add: <<>> is None, <<v>> is Some(v)
checked_mul(a, b) == IF b > 0 /\ a > U64_MAX \div b THEN <<>> ELSE <<a * b>>
checked_div(a, b) == IF b = 0 THEN <<>> ELSE <<a \div b>>
checked_add(a, b) == IF a > U64_MAX - b THEN <<>> ELSE <<a + b>>

\* the checks fund_contract and top_up_reserves share, then math_err (the
\* outcome of the handler's own arithmetic), then the transfer CPI; in A
\* neither names who may call: the signer only has to own the source
fund_accounts_err(caller, treasury_snrgtoken, staking_vault, amount, math_err) ==
    IF staking.variant = "A"
    THEN CASE ~IsAccount(tokens, treasury_snrgtoken) -> "AccountNotInitialized"
           [] ~IsAccount(tokens, staking_vault) -> "AccountNotInitialized"
           [] staking.snrg_mint = DefaultKey -> "SnrgNotSet"
           [] tokens[treasury_snrgtoken].mint # staking.snrg_mint -> "InvalidMint"
           [] tokens[staking_vault].mint # staking.snrg_mint -> "InvalidMint"
           [] ~(tokens[treasury_snrgtoken].amount >= amount) -> "InsufficientBalance"
           [] math_err # "Ok" -> math_err
           [] OTHER -> token_transfer_err(tokens, treasury_snrgtoken, staking_vault,
                                          caller, {caller}, amount)
    ELSE CASE stk_admin_err(caller) # "Ok" -> stk_admin_err(caller)
           [] ~StkContextB(caller, treasury_snrgtoken, staking_vault, "treasury_ata")
                 -> "ConstraintRaw"
           [] math_err # "Ok" -> math_err
           [] OTHER -> token_transfer_err(tokens, treasury_snrgtoken, staking_vault,
                                          caller, {caller}, amount)

fund_contract_err(caller, treasury_snrgtoken, staking_vault, amount) ==
    CASE ~(amount > 0) ->
            IF staking.variant = "A" THEN "InvalidAmount" ELSE "ZeroAmount"
      [] staking.is_funded -> "AlreadyFunded"
      [] OTHER -> fund_accounts_err(caller, treasury_snrgtoken, staking_vault, amount, "Ok")

fund_contract(caller, treasury_snrgtoken, staking_vault, amount) ==
    LET e == fund_contract_err(caller, treasury_snrgtoken, staking_vault, amount) IN
    /\ e = "Ok"
    /\ staking' = [staking EXCEPT !.is_funded = TRUE, !.reward_reserve = amount]
    /\ tokens' = token_transfer(tokens, treasury_snrgtoken, staking_vault, caller, amount)
    /\ UNCHANGED <<now, stk_hist, NotStaking>>

\* staking.reward_reserve.checked_add(amount).ok_or(MathOverflow)
top_up_reserves_err(caller, treasury_snrgtoken, staking_vault, amount) ==
    CASE ~(amount > 0) ->
            IF staking.variant = "A" THEN "InvalidAmount" ELSE "ZeroAmount"
      [] OTHER ->
            fund_accounts_err(caller, treasury_snrgtoken, staking_vault, amount,
                IF checked_add(staking.reward_reserve, amount) = <<>>
                THEN "MathOverflow" ELSE "Ok")

top_up_reserves(caller, treasury_snrgtoken, staking_vault, amount) ==
    LET e == top_up_reserves_err(caller, treasury_snrgtoken, staking_vault, amount) IN
    /\ e = "Ok"
    /\ staking' = [staking EXCEPT !.reward_reserve = checked_add(@, amount)[1]]
    /\ tokens' = token_transfer(tokens, treasury_snrgtoken, staking_vault, caller, amount)
    /\ UNCHANGED <<now, stk_hist, NotStaking>>

\* amount.checked_mul(bps).checked_div(BPS_DENOMINATOR) where it cannot
\* overflow (the fee rates, and amounts far below u64::MAX)
bps_of(amount, bps) == (amount * bps) \div BPS_DENOMINATOR

\* stake: amount.checked_mul(reward_bps as u64)?.checked_div(BPS_DENOMINATOR)?
stake_reward(amount, bps) ==
    LET product == checked_mul(amount, bps)
    IN  IF product = <<>> THEN <<>> ELSE checked_div(product[1], BPS_DENOMINATOR)

\* a solvency check that always passes
reserve_covers_always(new_promised) == TRUE

\* staking.reward_reserve >= new_promised
reserve_covers(new_promised) == staking.reward_reserve >= new_promised

stake_err(user, user_snrgtoken, staking_vault, amount, duration) ==
    LET reward == stake_reward(amount, reward_rates[duration])
        new_promised == checked_add(staking.promised_rewards, reward[1])
        transfer == token_transfer_err(tokens, user_snrgtoken, staking_vault,
                                       user, {user}, amount)
    IN
    IF staking.variant = "A"
    THEN CASE IsAccount(staking.stakes, <<user, now>>) -> "AccountAlreadyInUse"
           [] ~IsAccount(tokens, user_snrgtoken) -> "AccountNotInitialized"
           [] ~IsAccount(tokens, staking_vault) -> "AccountNotInitialized"
           [] ~(amount > 0) -> "InvalidAmount"
           [] ~(duration > 0) -> "InvalidDuration"
           [] ~staking.is_funded -> "NotFunded"
           [] staking.paused -> "Paused"
           [] staking.snrg_mint = DefaultKey -> "SnrgNotSet"
           [] tokens[user_snrgtoken].mint # staking.snrg_mint -> "InvalidMint"
           [] tokens[staking_vault].mint # staking.snrg_mint -> "InvalidMint"
           [] tokens[user_snrgtoken].owner # user -> "InvalidOwner"
           [] ~(tokens[user_snrgtoken].amount >= amount) -> "InsufficientBalance"
           [] duration \notin DOMAIN reward_rates -> "InvalidDuration"
           [] reward = <<>> -> "MathOverflow"
           [] new_promised = <<>> -> "MathOverflow"
           [] ~reserve_covers(new_promised[1]) -> "InsufficientReserves"
           [] OTHER -> transfer
    ELSE CASE ~StkContextB(user, user_snrgtoken, staking_vault, "treasury_ata")
                 -> "ConstraintRaw"
           [] ~(amount > 0) -> "ZeroAmount"
           [] ~(duration > 0) -> "InvalidDuration"
           [] ~staking.is_funded -> "NotFunded"
           [] staking.paused -> "Paused"
           [] duration \notin DOMAIN reward_rates -> "InvalidDuration"
           [] reward = <<>> -> "MathOverflow"
           [] new_promised = <<>> -> "MathOverflow"
           [] ~reserve_covers(new_promised[1]) -> "InsufficientReserves"
           [] OTHER -> transfer

\* B: let actual_received = before - user_token.reload()?.amount
actual_received(before, reloaded) == before - reloaded

\* B records the amount that left user_token (before - after the transfer)
stake(user, user_snrgtoken, staking_vault, amount, duration) ==
    LET e == stake_err(user, user_snrgtoken, staking_vault, amount, duration)
        reward == stake_reward(amount, reward_rates[duration])[1]
        new_promised == checked_add(staking.promised_rewards, reward)[1]
        end_time == now + duration * DAY
        after == token_transfer(tokens, user_snrgtoken, staking_vault, user, amount)
    IN
    /\ e = "Ok"
    /\ tokens' = after
    /\ staking' =
          IF staking.variant = "A"
          THEN [staking EXCEPT
                  !.promised_rewards = new_promised,
                  !.stakes = PutAccount(@, <<user, now>>,
                      [owner |-> user, amount |-> amount, reward |-> reward,
                       end_time |-> end_time, withdrawn |-> FALSE])]
          ELSE [staking EXCEPT
                  !.promised_rewards = new_promised,
                  !.user_stakes[user] = Append(@,
                      [amount |-> actual_received(tokens[user_snrgtoken].amount,
                                                  after[user_snrgtoken].amount),
                       reward |-> reward, end_time |-> end_time,
                       withdrawn |-> FALSE])]
    /\ stk_hist' = [stk_hist EXCEPT !.staked = @ + 1]
    /\ UNCHANGED <<now, NotStaking>>

\* close = user: the account is removed
CloseAccount(accounts, key) == [k \in DOMAIN accounts \ {key} |-> accounts[k]]

\* the stake a call names: in A the StakeAccount at address `stake`, in B
\* user_stakes.stakes[stake_index]
StakeExists(user, stake_ref) ==
    IF staking.variant = "A"
    THEN IsAccount(staking.stakes, stake_ref)
    ELSE stake_ref \in 0..(Len(staking.user_stakes[user]) - 1)

StakeOf(user, stake_ref) ==
    IF staking.variant = "A"
    THEN staking.stakes[stake_ref]
    ELSE staking.user_stakes[user][stake_ref + 1]

\* the signers of a CPI made with the seeds [b"staking", treasury, bump]
VaultSigners(user) == {user, StakingSigner}

\* a payout that leaves the reward out
withdraw_principal_only(s) == s.amount

\* a maturity check that always passes
stake_matured_always(s) == TRUE

\* a maturity check that also refuses while the program is paused
stake_matured_unless_paused(s) == ~staking.paused /\ now >= s.end_time

\* withdraw: current_time >= stake_account.end_time
stake_matured(s) == now >= s.end_time

\* let total = stake.amount.checked_add(stake.reward)
withdraw_total(s) == s.amount + s.reward

withdraw_err(user, stake_ref, staking_vault, user_snrgtoken) ==
    LET s == StakeOf(user, stake_ref)
        total == withdraw_total(s)
        transfer == token_transfer_err(tokens, staking_vault, user_snrgtoken,
                                       StakingSigner, VaultSigners(user), total)
    IN
    IF staking.variant = "A"
    THEN CASE ~StakeExists(user, stake_ref) -> "AccountNotInitialized"
           [] s.owner # user -> "ConstraintRaw"
           [] ~IsAccount(tokens, staking_vault) -> "AccountNotInitialized"
           [] ~IsAccount(tokens, user_snrgtoken) -> "AccountNotInitialized"
           [] s.withdrawn -> "AlreadyWithdrawn"
           [] ~stake_matured(s) -> "NotMatured"
           [] ~(tokens[staking_vault].amount >= total) -> "InsufficientBalance"
           [] staking.promised_rewards < s.reward -> "MathOverflow"
           [] staking.reward_reserve < s.reward -> "MathOverflow"
           [] OTHER -> transfer
    ELSE CASE ~StkContextB(user, user_snrgtoken, staking_vault, "treasury_ata")
                 -> "ConstraintRaw"
           [] ~StakeExists(user, stake_ref) -> "InvalidIndex"
           [] s.withdrawn -> "AlreadyWithdrawn"
           [] ~stake_matured(s) -> "StakeNotMatured"
           [] staking.promised_rewards < s.reward -> "MathOverflow"
           [] staking.reward_reserve < s.reward -> "MathOverflow"
           [] OTHER -> transfer

\* a settlement that leaves the stake record as it was
settle_stake_unmarked(user, stake_ref) == staking

\* the stake record after its settlement: withdrawn = true, and in A the
\* account is closed when the instruction exits
settle_stake(user, stake_ref) ==
    IF staking.variant = "A"
    THEN [staking EXCEPT !.stakes = CloseAccount(@, stake_ref)]
    ELSE [staking EXCEPT !.user_stakes[user][stake_ref + 1].withdrawn = TRUE]

withdraw(user, stake_ref, staking_vault, user_snrgtoken) ==
    LET e == withdraw_err(user, stake_ref, staking_vault, user_snrgtoken)
        s == StakeOf(user, stake_ref)
    IN
    /\ e = "Ok"
    /\ staking' = [settle_stake(user, stake_ref) EXCEPT
            !.promised_rewards = @ - s.reward,
            !.reward_reserve = @ - s.reward]
    /\ tokens' = token_transfer(tokens, staking_vault, user_snrgtoken,
                                StakingSigner, withdraw_total(s))
    /\ stk_hist' = [stk_hist EXCEPT !.settled = @ \cup {<<user, stake_ref>>}]
    /\ UNCHANGED <<now, NotStaking>>

\* The transfers of an early or emergency withdrawal, in order, each as
\* <<to, amount, signers>>.  A: the fee to the treasury, the remainder to the
\* user.  B, when fee > 0: _transfer_from_vault(fee), which pays user_token,
\* then the transfer to treasury_token, made without signer seeds; and the
\* remainder to the user when it is > 0.
penalty_transfers(user, s, treasury_snrgtoken, user_snrgtoken, fee_bps) ==
    LET fee == bps_of(s.amount, fee_bps)
        return_amount == s.amount - fee
    IN
    IF staking.variant = "A"
    THEN << <<treasury_snrgtoken, fee, VaultSigners(user)>>,
            <<user_snrgtoken, return_amount, VaultSigners(user)>> >>
    ELSE (IF fee > 0
          THEN << <<user_snrgtoken, fee, VaultSigners(user)>>,
                  <<treasury_snrgtoken, fee, {user}>> >>
          ELSE << >>)
         \o (IF return_amount > 0
             THEN << <<user_snrgtoken, return_amount, VaultSigners(user)>> >>
             ELSE << >>)

\* the outcome of a sequence of transfers out of the vault: <<error, accounts>>
RECURSIVE vault_transfers(_, _, _)
vault_transfers(accts, staking_vault, ts) ==
    IF ts = << >> THEN <<"Ok", accts>>
    ELSE LET t == Head(ts)
             e == token_transfer_err(accts, staking_vault, t[1], StakingSigner,
                                     t[3], t[2])
         IN  IF e # "Ok" THEN <<e, accts>>
             ELSE vault_transfers(
                      token_transfer(accts, staking_vault, t[1], StakingSigner, t[2]),
                      staking_vault, Tail(ts))

withdraw_with_penalty_err(user, stake_ref, staking_vault, treasury_snrgtoken, user_snrgtoken, fee_bps, is_emergency) ==
    LET s == StakeOf(user, stake_ref)
        transfers == vault_transfers(tokens, staking_vault,
            penalty_transfers(user, s, treasury_snrgtoken, user_snrgtoken, fee_bps))
    IN
    IF staking.variant = "A"
    THEN CASE ~StakeExists(user, stake_ref) -> "AccountNotInitialized"
           [] s.owner # user -> "ConstraintRaw"
           [] ~IsAccount(tokens, staking_vault) -> "AccountNotInitialized"
           [] ~IsAccount(tokens, treasury_snrgtoken) -> "AccountNotInitialized"
           [] ~IsAccount(tokens, user_snrgtoken) -> "AccountNotInitialized"
           [] s.withdrawn -> "AlreadyWithdrawn"
           [] ~is_emergency /\ ~(now < s.end_time) -> "AlreadyMatured"
           [] checked_mul(s.amount, fee_bps) = <<>> -> "MathOverflow"
           [] ~(tokens[staking_vault].amount >= s.amount) -> "InsufficientBalance"
           [] staking.promised_rewards < s.reward -> "MathOverflow"
           [] OTHER -> transfers[1]
    ELSE CASE ~StkContextB(user, user_snrgtoken, staking_vault, treasury_snrgtoken)
                 -> "ConstraintRaw"
           [] ~StakeExists(user, stake_ref) -> "InvalidIndex"
           [] s.withdrawn -> "AlreadyWithdrawn"
           [] ~is_emergency /\ ~(now < s.end_time) -> "StakeMatured"
           [] staking.promised_rewards < s.reward -> "MathOverflow"
           [] checked_mul(s.amount, fee_bps) = <<>> -> "MathOverflow"
           [] ~(bps_of(s.amount, fee_bps) < s.amount) -> "FeeExceedsAmount"
           [] OTHER -> transfers[1]

withdraw_with_penalty(user, stake_ref, staking_vault, treasury_snrgtoken, user_snrgtoken, fee_bps, is_emergency) ==
    LET e == withdraw_with_penalty_err(user, stake_ref, staking_vault,
                 treasury_snrgtoken, user_snrgtoken, fee_bps, is_emergency)
        s == StakeOf(user, stake_ref)
    IN
    /\ e = "Ok"
    /\ staking' = [settle_stake(user, stake_ref) EXCEPT
            !.promised_rewards = @ - s.reward]
    /\ tokens' = vault_transfers(tokens, staking_vault,
            penalty_transfers(user, s, treasury_snrgtoken, user_snrgtoken,
                              fee_bps))[2]
    /\ stk_hist' = [stk_hist EXCEPT !.settled = @ \cup {<<user, stake_ref>>}]
    /\ UNCHANGED <<now, NotStaking>>

withdraw_early(user, stake_ref, staking_vault, treasury_snrgtoken, user_snrgtoken) ==
    withdraw_with_penalty(user, stake_ref, staking_vault, treasury_snrgtoken,
                          user_snrgtoken, EARLY_WITHDRAWAL_FEE_BPS, FALSE)

emergency_withdraw(user, stake_ref, staking_vault, treasury_snrgtoken, user_snrgtoken) ==
    withdraw_with_penalty(user, stake_ref, staking_vault, treasury_snrgtoken,
                          user_snrgtoken, EMERGENCY_FEE_BPS, TRUE)

stk_pause_err(caller) ==
    CASE stk_admin_err(caller) # "Ok" -> stk_admin_err(caller)
      [] staking.paused -> "AlreadyPaused"
      [] OTHER -> "Ok"

stk_pause(caller) ==
    LET e == stk_pause_err(caller) IN
    /\ e = "Ok"
    /\ staking' = [staking EXCEPT !.paused = TRUE]
    /\ UNCHANGED <<now, tokens, stk_hist, NotStaking>>

stk_unpause_err(caller) ==
    CASE stk_admin_err(caller) # "Ok" -> stk_admin_err(caller)
      [] ~staking.paused -> "NotPaused"
      [] OTHER -> "Ok"

stk_unpause(caller) ==
    LET e == stk_unpause_err(caller) IN
    /\ e = "Ok"
    /\ staking' = [staking EXCEPT !.paused = FALSE]
    /\ UNCHANGED <<now, tokens, stk_hist, NotStaking>>

\* The calls offered to the staking program.
StkCallers == StkUsers \cup {Treasury}
StkTokenOf == [u \in StkCallers |->
    CASE u = "alice" -> "alice_ata" [] u = "bob" -> "bob_ata"
      [] u = Treasury -> "treasury_ata"]
StkFundArgs ==
    [caller : {Treasury}, amount : 0..StkMaxReserve]
    \cup [caller : {"alice"}, amount : {1}]
\* 20 tokens for 180 days earn a reward of 1 in A and in B; 19 tokens earn 1
\* in B and 0 in A, and pay no early withdrawal fee
StkStakeArgs ==
    [user : StkUsers, amount : {20, 19}, duration : {180}]
    \cup [user : {"alice"}, amount : {0}, duration : {180}]
    \cup [user : {"alice"}, amount : {19}, duration : {0, 45}]
    \cup [user : {"bob"}, amount : {StkBobBalance + 1}, duration : {180}]
\* the accounts offered as staking_vault with a stake: the vault, and for one
\* of the calls, as the first stake of a behaviour, the staker's own token account
StkVaultsFor(a) ==
    IF a.user = "alice" /\ a.amount = 20 /\ stk_hist.staked = 0 THEN {"vault", StkTokenOf[a.user]} ELSE {"vault"}
\* the accounts offered as treasury_snrgtoken with an early or emergency
\* withdrawal: the treasury's token account, and for alice also her own
StkFeeAccountsFor(u) ==
    IF u = "alice" THEN {"treasury_ata", StkTokenOf[u]} ELSE {"treasury_ata"}
\* the stakes a call can name: StakeAccount addresses in A, indexes in B
StkStakeRefs ==
    IF staking.variant = "A" THEN StkUsers \X StkInstants ELSE 0..StkMaxStakes
InitStaking ==
    /\ now = Genesis
    /\ tokens = StkTokensInit
    /\ StakingInit
    /\ timelock = NoAccounts /\ tl_hist = NoAccounts
    /\ registry = NoAccounts /\ reg_hist = NoAccounts
    /\ presale = NoAccounts /\ pre_hist = NoAccounts /\ lamports = NoAccounts
    /\ swap = NoAccounts /\ swp_hist = NoAccounts
    /\ token_state = NoAccounts

NextStaking ==
    \/ StkTick /\ UNCHANGED <<tokens, StakingVars, NotStaking>>
    \/ \E c \in StkCallers, m \in {tokens["vault"].mint, DefaultKey} : set_snrg_mint(c, m)
    \/ \E a \in StkFundArgs :
          fund_contract(a.caller, StkTokenOf[a.caller], "vault", a.amount)
    \/ \E a \in StkFundArgs :
          /\ staking.reward_reserve + a.amount <= StkMaxReserve
          /\ top_up_reserves(a.caller, StkTokenOf[a.caller], "vault", a.amount)
    \/ \E a \in StkStakeArgs :
          /\ stk_hist.staked < StkMaxStakes
          /\ \E v \in StkVaultsFor(a) :
                stake(a.user, StkTokenOf[a.user], v, a.amount, a.duration)
    \/ \E u \in StkUsers, s \in StkStakeRefs :
          withdraw(u, s, "vault", StkTokenOf[u])
    \/ \E u \in StkUsers, s \in StkStakeRefs :
          \E t \in StkFeeAccountsFor(u) : withdraw_early(u, s, "vault", t, StkTokenOf[u])
    \/ \E u \in StkUsers, s \in StkStakeRefs :
          \E t \in StkFeeAccountsFor(u) : emergency_withdraw(u, s, "vault", t, StkTokenOf[u])
    \/ \E c \in StkCallers : stk_pause(c)
    \/ \E c \in StkCallers : stk_unpause(c)

SpecStaking == InitStaking /\ [][NextStaking]_vars

\* the staking program deployed for an asset that deducts a fee on transfer
InitStakingFeeAsset ==
    /\ now = Genesis
    /\ tokens = StkTokensOf(FeeMint)
    /\ StakingInit
    /\ timelock = NoAccounts /\ tl_hist = NoAccounts
    /\ registry = NoAccounts /\ reg_hist = NoAccounts
    /\ presale = NoAccounts /\ pre_hist = NoAccounts /\ lamports = NoAccounts
    /\ swap = NoAccounts /\ swp_hist = NoAccounts
    /\ token_state = NoAccounts

SpecStakingFeeAsset == InitStakingFeeAsset /\ [][NextStaking]_vars

\* C1: the reward reserve covers the promised rewards in every state the
\* staking program reaches.
C1_ReserveCoversPromised ==
    /\ staking.promised_rewards >= 0
    /\ staking.reward_reserve >= staking.promised_rewards

\* after a settlement, the promised rewards use up the whole reserve
C1_Witness ==
    /\ stk_hist.settled # {}
    /\ staking.promised_rewards > 0
    /\ staking.reward_reserve = staking.promised_rewards
    /\ staking.paused

\* C4: once a stake has been settled, its record stays with withdrawn = true
\* and every withdraw, withdraw_early and emergency_withdraw on it fails with
\* AlreadyWithdrawn.
C4_SettledOnce ==
    \A id \in stk_hist.settled :
        LET user == id[1]
            stake_ref == id[2]
        IN  /\ StakeExists(user, stake_ref)
            /\ StakeOf(user, stake_ref).withdrawn
            /\ withdraw_err(user, stake_ref, "vault", StkTokenOf[user])
                  = "AlreadyWithdrawn"
            /\ \A is_emergency \in BOOLEAN :
                  withdraw_with_penalty_err(user, stake_ref, "vault", "treasury_ata",
                      StkTokenOf[user],
                      IF is_emergency THEN EMERGENCY_FEE_BPS
                      ELSE EARLY_WITHDRAWAL_FEE_BPS,
                      is_emergency)
                  = "AlreadyWithdrawn"

\* the sum of f over keys
RECURSIVE SumOver(_, _)
SumOver(f, keys) ==
    IF keys = {} THEN 0
    ELSE LET k == CHOOSE x \in keys : TRUE
         IN  f[k] + SumOver(f, keys \ {k})

\* the stake records of the program: <<user, reference>> -> record
StkRecords ==
    IF staking.variant = "A"
    THEN [id \in {<<staking.stakes[r].owner, r>> : r \in DOMAIN staking.stakes} |->
             staking.stakes[id[2]]]
    ELSE [id \in UNION {{<<u, i - 1>> : i \in DOMAIN staking.user_stakes[u]} :
                          u \in StkUsers} |->
             staking.user_stakes[id[1]][id[2] + 1]]

\* the principals of the stakes that are not withdrawn
StkOutstandingPrincipal ==
    SumOver([id \in DOMAIN StkRecords |->
                IF StkRecords[id].withdrawn THEN 0 ELSE StkRecords[id].amount],
            DOMAIN StkRecords)

\* C12: the balance of the vault (the token account the staking PDA owns) is
\* at least the principals of the unwithdrawn stakes plus promised_rewards.
C12_VaultCoversObligations ==
    tokens["vault"].amount >= StkOutstandingPrincipal + staking.promised_rewards

\* C13: reward_reserve changes only by + amount in fund_contract and
\* top_up_reserves, where amount is what the call moves into the vault, and by
\* - reward in the withdraw of a stake; so it is the sum of the amounts funded,
\* in whatever order, less the rewards paid.
C13_ReserveLedger ==
    [][/\ \A a \in StkFundArgs :
            (\/ fund_contract(a.caller, StkTokenOf[a.caller], "vault", a.amount)
             \/ top_up_reserves(a.caller, StkTokenOf[a.caller], "vault", a.amount))
                => staking'.reward_reserve = staking.reward_reserve + a.amount
       /\ \A u \in StkUsers, ref \in StkStakeRefs :
            withdraw(u, ref, "vault", StkTokenOf[u])
                => staking'.reward_reserve = staking.reward_reserve - StakeOf(u, ref).reward
       /\ staking'.reward_reserve # staking.reward_reserve =>
            \/ \E a \in StkFundArgs :
                  \/ fund_contract(a.caller, StkTokenOf[a.caller], "vault", a.amount)
                  \/ top_up_reserves(a.caller, StkTokenOf[a.caller], "vault", a.amount)
            \/ \E u \in StkUsers, ref \in StkStakeRefs :
                  withdraw(u, ref, "vault", StkTokenOf[u])]_vars

C15_PenaltySplit ==
    [][\A u \in StkUsers, ref \in StkStakeRefs, t \in {"treasury_ata", "alice_ata"}, is_emergency \in BOOLEAN :
          LET fee_bps == IF is_emergency THEN EMERGENCY_FEE_BPS ELSE EARLY_WITHDRAWAL_FEE_BPS
              s == StakeOf(u, ref)
              to == StkTokenOf[u]
              fee == bps_of(s.amount, fee_bps)
          IN  withdraw_with_penalty(u, ref, "vault", t, to, fee_bps, is_emergency) =>
                  /\ tokens'["treasury_ata"].amount = tokens["treasury_ata"].amount + fee
                  /\ tokens'[to].amount = tokens[to].amount + (s.amount - fee)
                  /\ tokens'["vault"].amount = tokens["vault"].amount - s.amount
                  /\ staking'.promised_rewards = staking.promised_rewards - s.reward
                  /\ staking'.reward_reserve = staking.reward_reserve]_vars

\* C16: in B, the principal stored in a new stake record is the number of
\* tokens the vault received with it (its balance after the stake less its
\* balance before); the stored principal never changes, and the settlement of
\* the stake takes out of the vault at most that principal plus the reward.
C16_PrincipalIsReceived ==
    [][staking.variant = "B" =>
          /\ \A u \in StkUsers :
                Len(staking'.user_stakes[u]) > Len(staking.user_stakes[u]) =>
                    staking'.user_stakes[u][Len(staking'.user_stakes[u])].amount
                        = tokens'["vault"].amount - tokens["vault"].amount
          /\ \A u \in StkUsers : \A i \in DOMAIN staking.user_stakes[u] :
                staking'.user_stakes[u][i].amount = staking.user_stakes[u][i].amount
          /\ \A id \in stk_hist'.settled \ stk_hist.settled :
                tokens["vault"].amount - tokens'["vault"].amount
                    <= StakeOf(id[1], id[2]).amount + StakeOf(id[1], id[2]).reward]_vars

\* the outcome of an early or emergency withdrawal, called by the stake's owner
StkPenaltyOutcome(id, is_emergency) ==
    withdraw_with_penalty_err(id[1], id[2], "vault", "treasury_ata", StkTokenOf[id[1]], IF is_emergency THEN EMERGENCY_FEE_BPS ELSE EARLY_WITHDRAWAL_FEE_BPS, is_emergency)

\* C17: for an unwithdrawn stake of maturity time T, withdraw fails with
\* NotMatured / StakeNotMatured while now < T and is past its time guard from T
\* on; withdraw_early fails with AlreadyMatured / StakeMatured from T on and is
\* past its time guard before; emergency_withdraw never fails on time.  A
\* withdraw settles a stake only at now >= T, a withdraw_early only at now < T.
C17_TimeGuards ==
    /\ [](\A id \in DOMAIN StkRecords :
            LET s == StkRecords[id]
                not_matured == {"NotMatured", "StakeNotMatured"}
                matured == {"AlreadyMatured", "StakeMatured"}
                w == withdraw_err(id[1], id[2], "vault", StkTokenOf[id[1]])
            IN  ~s.withdrawn =>
                  /\ (now < s.end_time) = (w \in not_matured)
                  /\ (now >= s.end_time) = (StkPenaltyOutcome(id, FALSE) \in matured)
                  /\ StkPenaltyOutcome(id, TRUE) \notin not_matured \cup matured)
    /\ [][\A u \in StkUsers, ref \in StkStakeRefs :
            /\ withdraw(u, ref, "vault", StkTokenOf[u])
                  => now >= StakeOf(u, ref).end_time
            /\ withdraw_early(u, ref, "vault", "treasury_ata", StkTokenOf[u])
                  => now < StakeOf(u, ref).end_time]_vars

\* a stake was settled, and another one has reached its maturity time: its
\* withdraw is accepted and its withdraw_early refused
C17_Witness ==
    /\ stk_hist.settled # {}
    /\ \E id \in DOMAIN StkRecords :
          /\ ~StkRecords[id].withdrawn
          /\ now >= StkRecords[id].end_time
          /\ withdraw_err(id[1], id[2], "vault", StkTokenOf[id[1]]) = "Ok"
          /\ StkPenaltyOutcome(id, FALSE) \in {"AlreadyMatured", "StakeMatured"}

\* the outcomes of the withdrawals of stake id in the current state
StkWithdrawOutcomes(id) ==
    <<withdraw_err(id[1], id[2], "vault", StkTokenOf[id[1]]),
      StkPenaltyOutcome(id, FALSE),
      StkPenaltyOutcome(id, TRUE)>>

\* the statement of C37 as written, for stake: while paused, every stake fails
\* with Paused
C37_StakePausedAsStated ==
    staking.paused =>
        \A a \in StkStakeArgs :
            stake_err(a.user, StkTokenOf[a.user], "vault", a.amount, a.duration)
                = "Paused"

\* C37: while paused no stake succeeds, and a stake that passes the checks made
\* before the pause check (amount > 0, duration > 0, is_funded, and in A a
\* fresh stake account) fails with Paused; the outcome of every withdraw,
\* withdraw_early and emergency_withdraw, of any user on any stake reference,
\* is the same before and after a pause or an unpause.
C37_PauseBlocksOnlyStake ==
    /\ [](staking.paused =>
            \A a \in StkStakeArgs :
                LET e == stake_err(a.user, StkTokenOf[a.user], "vault",
                                   a.amount, a.duration)
                IN  /\ e # "Ok"
                    /\ (/\ a.amount > 0 /\ a.duration > 0 /\ staking.is_funded
                        /\ ~(staking.variant = "A"
                             /\ IsAccount(staking.stakes, <<a.user, now>>)))
                       => e = "Paused")
    /\ [][staking'.paused # staking.paused =>
            /\ \E c \in StkCallers : stk_pause(c) \/ stk_unpause(c)
            /\ \A u \in StkUsers, ref \in StkStakeRefs :
                  StkWithdrawOutcomes(<<u, ref>>)' = StkWithdrawOutcomes(<<u, ref>>)]_vars

\* the program is paused with a stake outstanding: a new stake is refused with
\* Paused and the withdraw of the matured stake is accepted
C37_Witness ==
    /\ staking.paused
    /\ \E a \in StkStakeArgs :
          stake_err(a.user, StkTokenOf[a.user], "vault", a.amount, a.duration)
              = "Paused"
    /\ \E id \in DOMAIN StkRecords :
          /\ ~StkRecords[id].withdrawn
          /\ StkWithdrawOutcomes(id)[1] = "Ok"
          /\ StkWithdrawOutcomes(id)[3] = "Ok"

\* the rewards of the stakes that are not withdrawn
StkOutstandingRewards ==
    SumOver([id \in DOMAIN StkRecords |->
                IF StkRecords[id].withdrawn THEN 0 ELSE StkRecords[id].reward],
            DOMAIN StkRecords)

\* C35: promised_rewards is the sum of the rewards of the stake records that
\* are not withdrawn; so no unsettled stake has a reward above it (the
\* checked_sub of withdraw, withdraw_early and emergency_withdraw cannot
\* underflow), and it is 0 when every stake is settled.
C35_PromisedIsSumOfRewards ==
    /\ staking.promised_rewards = StkOutstandingRewards
    /\ \A id \in DOMAIN StkRecords :
          ~StkRecords[id].withdrawn =>
          /\ staking.promised_rewards >= StkRecords[id].reward
          /\ withdraw_err(id[1], id[2], "vault", StkTokenOf[id[1]]) # "MathOverflow"
          /\ \A is_emergency \in BOOLEAN :
                StkPenaltyOutcome(id, is_emergency) # "MathOverflow"
    /\ (\A id \in DOMAIN StkRecords : StkRecords[id].withdrawn)
          => staking.promised_rewards = 0

\* of two stakes made, one is settled and the other, which earns a reward,
\* is not: promised_rewards is that reward
C35_Witness ==
    /\ stk_hist.staked = StkMaxStakes
    /\ Cardinality(stk_hist.settled) = 1
    /\ \E id \in DOMAIN StkRecords :
          /\ ~StkRecords[id].withdrawn
          /\ StkRecords[id].reward > 0
          /\ staking.promised_rewards = StkRecords[id].reward

(***************************************************************************)
(* Amounts at the top of the u64 range.  SpecStakingWide is the staking     *)
(* program with balances, reserves and stakes large enough for the checked  *)
(* arithmetic of stake and top_up_reserves to overflow.                     *)
(***************************************************************************)
\* more than half of u64::MAX: two of them do not fit
StkWideHalf == U64_MAX \div 2 + 1
\* a reserve that covers the reward of any one stake
StkWideReserve == U64_MAX \div BPS_DENOMINATOR + 1
\* the largest amount whose product with the rate of `duration` fits in a u64
StkWideFit(duration) == U64_MAX \div reward_rates[duration]

\* the whole supply is below u64::MAX
StkTokensWide ==
    [a \in {"vault", "treasury_ata", "alice_ata", "bob_ata"} |->
        CASE a = "vault" -> TokenAccount(StakingSigner, SnrgMint, 0)
          [] a = "treasury_ata" -> TokenAccount(Treasury, SnrgMint, StkWideHalf + 1)
          [] a = "alice_ata" -> TokenAccount("alice", SnrgMint, U64_MAX \div 100)
          [] a = "bob_ata" -> TokenAccount("bob", SnrgMint, 1)]

\* fund_contract and top_up_reserves by the treasury, into the vault or (which
\* A accepts) back into the treasury's own token account
StkWideFundArgs ==
    [caller : {Treasury}, vault : {"vault", "treasury_ata"},
     amount : {1, StkWideReserve, StkWideHalf}]

\* stakes at the largest amount that fits and at the first that does not, and
\* one whose emergency fee can still be computed
StkWideStakeArgs ==
    [user : {"alice"}, duration : {30},
     amount : {U64_MAX \div EMERGENCY_FEE_BPS, StkWideFit(30), StkWideFit(30) + 1}]
    \cup [user : {"alice"}, amount : {StkWideFit(180) + 1}, duration : {180}]
    \cup [user : {"bob"}, amount : {StkWideFit(30) + 1}, duration : {30}]

InitStakingWide ==
    /\ now = Genesis
    /\ tokens = StkTokensWide
    /\ StakingInit
    /\ timelock = NoAccounts /\ tl_hist = NoAccounts
    /\ registry = NoAccounts /\ reg_hist = NoAccounts
    /\ presale = NoAccounts /\ pre_hist = NoAccounts /\ lamports = NoAccounts
    /\ swap = NoAccounts /\ swp_hist = NoAccounts
    /\ token_state = NoAccounts

\* top_up_reserves is offered while the reserve is one of the offered amounts
NextStakingWide ==
    \/ StkTick /\ UNCHANGED <<tokens, StakingVars, NotStaking>>
    \/ \E c \in StkCallers, m \in {tokens["vault"].mint, DefaultKey} : set_snrg_mint(c, m)
    \/ \E a \in StkWideFundArgs :
          fund_contract(a.caller, StkTokenOf[a.caller], a.vault, a.amount)
    \/ \E a \in StkWideFundArgs :
          /\ staking.reward_reserve \in {0, 1, StkWideReserve, StkWideHalf}
          /\ top_up_reserves(a.caller, StkTokenOf[a.caller], a.vault, a.amount)
    \/ \E a \in StkWideStakeArgs :
          /\ stk_hist.staked < StkMaxStakes
          /\ stake(a.user, StkTokenOf[a.user], "vault", a.amount, a.duration)
    \/ \E u \in StkUsers, s \in StkStakeRefs :
          withdraw(u, s, "vault", StkTokenOf[u])
    \/ \E u \in StkUsers, s \in StkStakeRefs :
          withdraw_early(u, s, "vault", "treasury_ata", StkTokenOf[u])
    \/ \E u \in StkUsers, s \in StkStakeRefs :
          emergency_withdraw(u, s, "vault", "treasury_ata", StkTokenOf[u])

SpecStakingWide == InitStakingWide /\ [][NextStakingWide]_vars

\* amount * bps > u64::MAX and x + y > u64::MAX, without forming the result
StkMulOverflows(amount, bps) == amount > U64_MAX \div bps
StkAddOverflows(x, y) == x > U64_MAX - y

\* the arithmetic of stake(a) overflows in the current state
StkStakeOverflows(a) ==
    LET bps == reward_rates[a.duration] IN
    \/ StkMulOverflows(a.amount, bps)
    \/ StkAddOverflows(staking.promised_rewards, (a.amount * bps) \div BPS_DENOMINATOR)

\* stake(a) passes every check made before the reward is computed
StkStakeReachesMath(a) ==
    /\ a.amount > 0 /\ a.duration \in DOMAIN reward_rates
    /\ staking.is_funded /\ ~staking.paused
    /\ staking.variant = "A" =>
          /\ ~IsAccount(staking.stakes, <<a.user, now>>)
          /\ tokens[StkTokenOf[a.user]].amount >= a.amount

\* the amounts, rates and promised rewards the arithmetic is evaluated on
StkMathRates == {125, 250, 375, 500, 750}
StkMathAmounts(bps) == {0, 1, U64_MAX \div bps, U64_MAX \div bps + 1, U64_MAX}
StkMathPromised(reward) == {0, 1, U64_MAX - reward, U64_MAX} \cup
    (IF reward > 0 THEN {U64_MAX - reward + 1} ELSE {})

\* the reward of the record that stake(a) stores
StkNewReward(a) ==
    IF staking.variant = "A"
    THEN staking'.stakes[<<a.user, now>>].reward
    ELSE staking'.user_stakes[a.user][Len(staking'.user_stakes[a.user])].reward

\* the statement of C40 as written, for stake: a call whose amount * bps or
\* promised_rewards + reward exceeds u64::MAX fails with MathOverflow
C40_OverflowAsStated ==
    \A a \in StkWideStakeArgs :
        StkStakeOverflows(a) =>
            stake_err(a.user, StkTokenOf[a.user], "vault", a.amount, a.duration)
                = "MathOverflow"

\* C40: stake computes reward = floor(amount * bps / 10000) in checked u64
\* arithmetic.  On every amount, rate and promised_rewards at the edges of the
\* u64 range the computation yields None exactly when amount * bps or
\* promised_rewards + reward exceeds u64::MAX and the exact values otherwise.
\* A stake whose arithmetic overflows never succeeds, so changes no state, and
\* fails with MathOverflow when it passes the checks made before the reward is
\* computed; so does a top_up_reserves whose reward_reserve + amount
\* overflows, once its account checks pass.  A stake that succeeds stores the
\* exact reward and the exact promised_rewards + reward, a top_up_reserves
\* the exact reward_reserve + amount, and every step leaves promised_rewards
\* and reward_reserve within 0..u64::MAX, lowering the reserve only by
\* fund_contract or by the reward a withdraw pays.
C40_CheckedArithmetic ==
    /\ [](/\ \A bps \in StkMathRates : \A amount \in StkMathAmounts(bps) :
               LET reward == stake_reward(amount, bps) IN
               IF StkMulOverflows(amount, bps)
               THEN reward = <<>>
               ELSE /\ reward = <<(amount * bps) \div BPS_DENOMINATOR>>
                    /\ \A promised \in StkMathPromised(reward[1]) :
                          checked_add(promised, reward[1]) =
                              IF StkAddOverflows(promised, reward[1])
                              THEN <<>> ELSE <<promised + reward[1]>>
          /\ \A a \in StkWideStakeArgs :
               LET e == stake_err(a.user, StkTokenOf[a.user], "vault",
                                  a.amount, a.duration)
               IN  StkStakeOverflows(a) =>
                     /\ e # "Ok"
                     /\ ~ENABLED stake(a.user, StkTokenOf[a.user], "vault",
                                       a.amount, a.duration)
                     /\ StkStakeReachesMath(a) => e = "MathOverflow"
          /\ \A a \in StkWideFundArgs :
               LET e == top_up_reserves_err(a.caller, StkTokenOf[a.caller],
                                            a.vault, a.amount)
               IN  StkAddOverflows(staking.reward_reserve, a.amount) =>
                     /\ e # "Ok"
                     /\ ~ENABLED top_up_reserves(a.caller, StkTokenOf[a.caller],
                                                 a.vault, a.amount)
                     /\ (a.amount > 0 /\ fund_accounts_err(a.caller,
                             StkTokenOf[a.caller], a.vault, a.amount, "Ok") = "Ok")
                        => e = "MathOverflow")
    /\ [][/\ \A a \in StkWideStakeArgs :
               stake(a.user, StkTokenOf[a.user], "vault", a.amount, a.duration) =>
                  LET bps == reward_rates[a.duration] IN
                  /\ ~StkMulOverflows(a.amount, bps)
                  /\ StkNewReward(a) = (a.amount * bps) \div BPS_DENOMINATOR
                  /\ ~StkAddOverflows(staking.promised_rewards, StkNewReward(a))
                  /\ staking'.promised_rewards
                        = staking.promised_rewards + StkNewReward(a)
          /\ \A a \in StkWideFundArgs :
               top_up_reserves(a.caller, StkTokenOf[a.caller], a.vault, a.amount) =>
                  /\ ~StkAddOverflows(staking.reward_reserve, a.amount)
                  /\ staking'.reward_reserve = staking.reward_reserve + a.amount
          /\ staking'.promised_rewards \in 0..U64_MAX
          /\ staking'.reward_reserve \in 0..U64_MAX
          /\ staking'.promised_rewards <= staking'.reward_reserve
          /\ staking'.reward_reserve < staking.reward_reserve =>
               \/ ~staking.is_funded /\ staking'.is_funded
               \/ staking.reward_reserve - staking'.reward_reserve
                     = staking.promised_rewards - staking'.promised_rewards]_vars

\* a stake is outstanding with its reward promised, and in this state a stake
\* of one token more than fits fails with MathOverflow, as does a top-up of
\* the reserve by more than the room left
C40_Witness ==
    /\ staking.promised_rewards > 0
    /\ \E a \in StkWideStakeArgs :
          /\ StkMulOverflows(a.amount, reward_rates[a.duration])
          /\ StkStakeReachesMath(a)
          /\ stake_err(a.user, StkTokenOf[a.user], "vault", a.amount, a.duration)
                = "MathOverflow"
    /\ \E a \in StkWideFundArgs :
          /\ StkAddOverflows(staking.reward_reserve, a.amount)
          /\ top_up_reserves_err(a.caller, StkTokenOf[a.caller], a.vault, a.amount)
                = "MathOverflow"

(***************************************************************************)
(* snrg_presale.  Variant A is src/solana/programs/snrg_presale, variant B *)
(* is src/networks/solana/programs/snrg_presale.  SNRG amounts are counted *)
(* in whole SNRG (10^9 base units): every amount the model offers is a     *)
(* whole number of SNRG and stays far below u64::MAX.                      *)
(***************************************************************************)
PURCHASE_COOLDOWN == 300
MAX_PURCHASES_PER_DAY == 10
MAX_SUPPORTED_TOKENS == 10

MIN_PURCHASE_AMOUNT == IF presale.variant = "A" THEN 250 ELSE 1000

\* crate::ID
PresaleProgramId == "presale_program_id"

\* the PDA of seeds [b"presale", treasury, bump]: the Presale account's address
PresaleSigner == "presale_pda"

\* a payment token's mint
PayMint == "usdc_mint"

PreBuyers == {"alice", "bob"}

\* the keys that sign purchase orders off-chain
PreKeys == {"signer_key", "mallory_key"}

\* The clock advances by one cooldown at a time.
PreMaxTicks == 1

PreInstants == {Genesis + k * PURCHASE_COOLDOWN : k \in 0..PreMaxTicks}

PreTick ==
    /\ now + PURCHASE_COOLDOWN \in PreInstants
    /\ now' = now + PURCHASE_COOLDOWN

\* the nonces that orders carry, besides the invalid nonce 0
PreMaxNonce == 2

PrePayBalance == PreMaxNonce

\* the assets the presale is deployed to sell: a standard SPL token, or, for
\* B, whose delivery leg has the delta check, one that deducts a fee on transfer
PreSnrgAssets(v) == IF v = "B" THEN {SnrgMint, FeeMint} ELSE {SnrgMint}

PreTokensInit(snrg_mint) ==
    [a \in {"treasury_snrg", "alice_ata", "bob_ata",
            "treasury_pay", "alice_pay", "bob_pay"} |->
        CASE a = "treasury_snrg" -> TokenAccount(PresaleSigner, snrg_mint, PreMaxNonce * 1000)
          [] a = "alice_ata" -> TokenAccount("alice", snrg_mint, 0)
          [] a = "bob_ata" -> TokenAccount("bob", snrg_mint, 0)
          [] a = "treasury_pay" -> TokenAccount(Treasury, PayMint, 0)
          [] a = "alice_pay" -> TokenAccount("alice", PayMint, PrePayBalance)
          [] a = "bob_pay" -> TokenAccount("bob", PayMint, PrePayBalance)]

\* initialize(signer), with the caller's choice of mint and treasury.  A keeps
\* the used nonces in the Presale account; B keeps them in NonceState accounts.
\* buyer_state holds A's BuyerState accounts and B's PurchaseTracking accounts
\* (whose daily_reset is daily_purchase_reset here), by buyer.
PresaleAfterInitialize(v) ==
    [variant |-> v,
     snrg_mint |-> tokens["treasury_snrg"].mint,
     treasury |-> Treasury,
     signer |-> "signer_key",
     open |-> FALSE,
     paused |-> FALSE,
     max_purchase_amount |-> IF v = "A" THEN 10000000 ELSE 5000000,
     used_nonces |-> << >>,
     supported_tokens |-> {},
     nonce_state |-> NoAccounts,
     buyer_state |-> NoAccounts]

PresaleInit ==
    \E v \in {"A", "B"} :
        /\ presale = PresaleAfterInitialize(v)
        /\ pre_hist = [bought |-> [n \in 1..PreMaxNonce |-> 0]]
        /\ lamports = [k \in PreBuyers \cup {Treasury} |->
                          IF k = Treasury THEN 0 ELSE PrePayBalance]

\* The account contexts BuyWithNative and BuyWithToken of B are not in the
\* source ("available on request if needed").  They are taken to bind the
\* presale's treasury, its SNRG custody account and program-derived authority,
\* the treasury's payment account and the buyer's own SNRG account, and to
\* give the presale one nonce record, shared by all buyers.
PreContextB(ctx) ==
    /\ ctx.treasury = presale.treasury
    /\ ctx.treasury_authority = PresaleSigner
    /\ ctx.treasury_snrgtoken = "treasury_snrg"
    /\ IsAccount(tokens, ctx.buyer_snrgtoken)
    /\ tokens[ctx.buyer_snrgtoken].owner = ctx.buyer

PreTokenContextB(ctx) ==
    /\ PreContextB(ctx)
    /\ ctx.treasury_payment_token = "treasury_pay"
    /\ IsAccount(tokens, ctx.buyer_payment_token)

nonce_state_of(buyer) == "nonce_state"

\* A: constraint = authority.key() == presale.treasury (SetSigner, SetOpen,
\* ManageToken).  B: Admin has `owner: Signer` with no constraint on it.
pre_admin_err(caller) ==
    IF presale.variant = "A" /\ caller # presale.treasury
    THEN "ConstraintRaw"
    ELSE "Ok"

\* The Presale account is allocated once; a handler that leaves it larger than
\* its space fails when the account is written back.
presale_fits(nonces, supported) ==
    IF presale.variant = "A"
    THEN 8 * nonces + 32 * supported <= 8 * 100 + 32 * MAX_SUPPORTED_TOKENS
    ELSE 4 + 33 * supported <= 200

set_signer_err(caller, signer) ==
    CASE pre_admin_err(caller) # "Ok" -> pre_admin_err(caller)
      [] signer = DefaultKey ->
            (IF presale.variant = "A" THEN "InvalidSigner" ELSE "ZeroAddress")
      [] presale.variant = "A" /\ signer = presale.signer -> "SameSigner"
      [] OTHER -> "Ok"

set_signer(caller, signer) ==
    /\ set_signer_err(caller, signer) = "Ok"
    /\ presale' = [presale EXCEPT !.signer = signer]
    /\ UNCHANGED <<now, tokens, pre_hist, lamports, NotPresale>>

\* set_open without A's require!(presale.open != open)
set_open_err_no_same_state(caller, open) ==
    CASE pre_admin_err(caller) # "Ok" -> pre_admin_err(caller)
      [] OTHER -> "Ok"

set_open_err(caller, open) ==
    CASE pre_admin_err(caller) # "Ok" -> pre_admin_err(caller)
      [] presale.variant = "A" /\ presale.open = open -> "SameState"
      [] OTHER -> "Ok"

\* the events a set_open call emits: B returns Ok(()) before its emit! when
\* open already has the value asked for
set_open_events(caller, open) ==
    CASE set_open_err(caller, open) # "Ok" -> <<>>
      [] presale.variant = "B" /\ presale.open = open -> <<>>
      [] OTHER -> <<[event |-> "OpenSet", open |-> open]>>

set_open(caller, open) ==
    /\ set_open_err(caller, open) = "Ok"
    /\ presale' = [presale EXCEPT !.open = open]
    /\ UNCHANGED <<now, tokens, pre_hist, lamports, NotPresale>>

set_max_purchase_amount_err(caller, max_amount) ==
    CASE pre_admin_err(caller) # "Ok" -> pre_admin_err(caller)
      [] max_amount <= 0 ->
            (IF presale.variant = "A" THEN "InvalidAmount" ELSE "ZeroAmount")
      [] presale.variant = "A" /\ max_amount < MIN_PURCHASE_AMOUNT -> "AmountTooLow"
      [] OTHER -> "Ok"

set_max_purchase_amount(caller, max_amount) ==
    /\ set_max_purchase_amount_err(caller, max_amount) = "Ok"
    /\ presale' = [presale EXCEPT !.max_purchase_amount = max_amount]
    /\ UNCHANGED <<now, tokens, pre_hist, lamports, NotPresale>>

\* A only
add_supported_token_err(caller, token_mint) ==
    CASE presale.variant # "A" -> "InstructionFallbackNotFound"
      [] pre_admin_err(caller) # "Ok" -> pre_admin_err(caller)
      [] token_mint = DefaultKey -> "InvalidToken"
      [] token_mint = presale.snrg_mint -> "CannotUseSnrgAsPayment"
      [] token_mint \in presale.supported_tokens -> "TokenAlreadySupported"
      [] Cardinality(presale.supported_tokens) >= MAX_SUPPORTED_TOKENS -> "TooManyTokens"
      [] ~presale_fits(Len(presale.used_nonces),
                       Cardinality(presale.supported_tokens) + 1)
            -> "AccountDidNotSerialize"
      [] OTHER -> "Ok"

add_supported_token(caller, token_mint) ==
    /\ add_supported_token_err(caller, token_mint) = "Ok"
    /\ presale' = [presale EXCEPT !.supported_tokens = @ \cup {token_mint}]
    /\ UNCHANGED <<now, tokens, pre_hist, lamports, NotPresale>>

\* A only
remove_supported_token_err(caller, token_mint) ==
    CASE presale.variant # "A" -> "InstructionFallbackNotFound"
      [] pre_admin_err(caller) # "Ok" -> pre_admin_err(caller)
      [] OTHER -> "Ok"

remove_supported_token(caller, token_mint) ==
    /\ remove_supported_token_err(caller, token_mint) = "Ok"
    /\ presale' = [presale EXCEPT !.supported_tokens = @ \ {token_mint}]
    /\ UNCHANGED <<now, tokens, pre_hist, lamports, NotPresale>>

\* B only
set_supported_token_err(caller, token, is_supported) ==
    CASE presale.variant # "B" -> "InstructionFallbackNotFound"
      [] pre_admin_err(caller) # "Ok" -> pre_admin_err(caller)
      [] token = DefaultKey -> "ZeroAddress"
      [] token = presale.snrg_mint -> "CannotUseSnrgAsPayment"
      [] is_supported
         /\ ~presale_fits(0, Cardinality(presale.supported_tokens \cup {token}))
            -> "AccountDidNotSerialize"
      [] OTHER -> "Ok"

set_supported_token(caller, token, is_supported) ==
    /\ set_supported_token_err(caller, token, is_supported) = "Ok"
    /\ presale' = [presale EXCEPT !.supported_tokens =
                      IF is_supported THEN @ \cup {token} ELSE @ \ {token}]
    /\ UNCHANGED <<now, tokens, pre_hist, lamports, NotPresale>>

pre_pause_err(caller) ==
    CASE pre_admin_err(caller) # "Ok" -> pre_admin_err(caller)
      [] presale.paused -> "AlreadyPaused"
      [] OTHER -> "Ok"

pre_pause(caller) ==
    /\ pre_pause_err(caller) = "Ok"
    /\ presale' = [presale EXCEPT !.paused = TRUE]
    /\ UNCHANGED <<now, tokens, pre_hist, lamports, NotPresale>>

pre_unpause_err(caller) ==
    CASE pre_admin_err(caller) # "Ok" -> pre_admin_err(caller)
      [] ~presale.paused -> "NotPaused"
      [] OTHER -> "Ok"

pre_unpause(caller) ==
    /\ pre_unpause_err(caller) = "Ok"
    /\ presale' = [presale EXCEPT !.paused = FALSE]
    /\ UNCHANGED <<now, tokens, pre_hist, lamports, NotPresale>>

\* fn check_nonce (A); the first require! of _verify_signature (B)
check_nonce_err(nonce) ==
    IF nonce > 0 THEN "Ok" ELSE "InvalidNonce"

check_purchase_limits_err(snrg_amount) ==
    CASE snrg_amount < MIN_PURCHASE_AMOUNT -> "AmountTooLow"
      [] snrg_amount > presale.max_purchase_amount -> "AmountTooHigh"
      [] OTHER -> "Ok"

\* the buyer's BuyerState / PurchaseTracking; a new account is zeroed
BuyerStateOf(buyer) ==
    IF IsAccount(presale.buyer_state, buyer)
    THEN presale.buyer_state[buyer]
    ELSE [last_purchase_time |-> 0, purchase_count_today |-> 0,
          daily_purchase_reset |-> 0]

\* a daily counter that is never reset
rate_window_kept(bs) == bs

\* A: "Reset daily counter if needed"
rate_window(bs) ==
    IF now >= bs.daily_purchase_reset + DAY
    THEN [bs EXCEPT !.purchase_count_today = 0, !.daily_purchase_reset = now]
    ELSE bs

check_and_update_rate_limits_err(bs) ==
    CASE now < bs.last_purchase_time + PURCHASE_COOLDOWN -> "PurchaseTooSoon"
      [] rate_window(bs).purchase_count_today >= MAX_PURCHASES_PER_DAY
            -> "DailyLimitExceeded"
      [] OTHER -> "Ok"

check_and_update_rate_limits(bs) ==
    [rate_window(bs) EXCEPT !.last_purchase_time = now,
                            !.purchase_count_today = @ + 1]

\* B: _update_purchase_tracking
update_purchase_tracking(tracking) ==
    IF now >= tracking.daily_purchase_reset + DAY
    THEN [last_purchase_time |-> now, purchase_count_today |-> 1,
          daily_purchase_reset |-> now]
    ELSE [tracking EXCEPT !.last_purchase_time = now,
                          !.purchase_count_today = @ + 1]

\* keccak over the concatenation of the fixed-width fields: one digest per
\* tuple of field values.  A's digest has no deadline and no domain separator.
build_message_hash(buyer, payment_token, payment_amount, snrg_amount, nonce, deadline) ==
    IF presale.variant = "A"
    THEN <<buyer, payment_token, payment_amount, snrg_amount, nonce,
           PresaleProgramId>>
    ELSE <<buyer, payment_token, payment_amount, snrg_amount, nonce, deadline,
           PresaleProgramId, "snrg_presale_v1">>

\* B: keccak("\x19Ethereum Signed Message:\n32" ++ message_hash)
eth_signed_hash(message_hash) ==
    <<"Ethereum Signed Message:32", message_hash>>

\* what the off-chain signer signs for an order
signed_digest(message_hash) ==
    IF presale.variant = "A" THEN message_hash ELSE eth_signed_hash(message_hash)

\* A signature of `len` bytes made with `key` over `digest`.
Signature(len, key, digest) ==
    [len |-> len, key |-> key, signed |-> digest]

\* Recovery over the digest that was signed gives the signing key; over any
\* other digest it gives a key that nobody holds.
secp256k1_recover(digest, signature) ==
    IF signature.signed = digest THEN signature.key ELSE "unrelated_key"

\* the nonces consumed so far, as the purchase of `buyer` sees them
nonces_used(buyer) ==
    IF presale.variant = "A"
    THEN {presale.used_nonces[i] : i \in DOMAIN presale.used_nonces}
    ELSE IF IsAccount(presale.nonce_state, nonce_state_of(buyer))
         THEN presale.nonce_state[nonce_state_of(buyer)].used_nonces
         ELSE {}

nonce_unused_always(buyer, nonce) == TRUE

\* A: !presale.used_nonces.contains(&nonce);
\* B: !nonce_state.used_nonces.contains_key(&nonce)
nonce_unused(buyer, nonce) == nonce \notin nonces_used(buyer)

\* A: fn verify_signature checks the length only.  B: fn _verify_signature.
verify_signature_err(message, signature, buyer, nonce) ==
    IF presale.variant = "A"
    THEN (IF signature.len # 64 THEN "InvalidSignature" ELSE "Ok")
    ELSE CASE check_nonce_err(nonce) # "Ok" -> check_nonce_err(nonce)
           [] ~nonce_unused(buyer, nonce) -> "NonceAlreadyUsed"
           [] secp256k1_recover(eth_signed_hash(message), signature) # presale.signer
                 -> "InvalidSignature"
           [] OTHER -> "Ok"

\* the payment leg of buy_with_token
payment_transfer_err(ctx, payment_amount) ==
    token_transfer_err(tokens, ctx.buyer_payment_token, ctx.treasury_payment_token,
                       ctx.buyer, {ctx.buyer}, payment_amount)

payment_transfer(ctx, payment_amount) ==
    token_transfer(tokens, ctx.buyer_payment_token, ctx.treasury_payment_token,
                   ctx.buyer, payment_amount)

\* the delivery leg: treasury_snrgtoken -> buyer_snrgtoken, signed with the
\* seeds [b"presale", treasury, bump]
deliver_snrg(accts, ctx, amount) ==
    token_transfer(accts, ctx.treasury_snrgtoken, ctx.buyer_snrgtoken,
                   ctx.treasury_authority, amount)

\* a delta check that accepts any delivery
exact_delivery_always(received, amount) == TRUE

\* B: require_eq!(received, amount, InexactDelivery)
exact_delivery(received, amount) == received = amount

deliver_snrg_err(accts, ctx, amount) ==
    LET cpi == token_transfer_err(accts, ctx.treasury_snrgtoken, ctx.buyer_snrgtoken,
                   ctx.treasury_authority, {ctx.buyer, PresaleSigner}, amount)
        received == deliver_snrg(accts, ctx, amount)[ctx.buyer_snrgtoken].amount
                        - accts[ctx.buyer_snrgtoken].amount
    IN  IF presale.variant = "A"
        THEN cpi
        ELSE CASE accts[ctx.treasury_snrgtoken].amount < amount -> "InsufficientBalance"
               [] cpi # "Ok" -> cpi
               [] ~exact_delivery(received, amount) -> "InexactDelivery"
               [] OTHER -> "Ok"

\* the checks of A's handlers up to the rate limit
buy_checks_A(ctx, payment_amount, snrg_amount, nonce, signature) ==
    CASE payment_amount <= 0 \/ snrg_amount <= 0 -> "InvalidAmount"
      [] signature.len # 64 -> "InvalidSignature"
      [] ~presale.open -> "Closed"
      [] presale.paused -> "Paused"
      [] check_nonce_err(nonce) # "Ok" -> check_nonce_err(nonce)
      [] check_purchase_limits_err(snrg_amount) # "Ok"
            -> check_purchase_limits_err(snrg_amount)
      [] OTHER -> check_and_update_rate_limits_err(BuyerStateOf(ctx.buyer))

\* the checks of B's handlers up to the deadline
buy_checks_B(payment_amount, snrg_amount, deadline) ==
    CASE ~presale.open -> "PresaleClosed"
      [] presale.paused -> "Paused"
      [] payment_amount <= 0 \/ snrg_amount <= 0 -> "ZeroAmount"
      [] deadline <= 0 \/ now > deadline -> "SignatureExpired"
      [] OTHER -> "Ok"

buy_with_native_err(ctx, payment_amount, snrg_amount, nonce, deadline, signature) ==
    LET message == build_message_hash(ctx.buyer, DefaultKey, payment_amount,
                                      snrg_amount, nonce, deadline)
        verified == verify_signature_err(message, signature, ctx.buyer, nonce)
    IN  IF presale.variant = "A"
        THEN LET checks == buy_checks_A(ctx, payment_amount, snrg_amount, nonce, signature)
             IN  CASE ctx.treasury # presale.treasury -> "ConstraintHasOne"
                   [] ~IsAccount(tokens, ctx.treasury_snrgtoken)
                      \/ ~IsAccount(tokens, ctx.buyer_snrgtoken) -> "AccountNotInitialized"
                   [] checks # "Ok" -> checks
                   [] ~nonce_unused(ctx.buyer, nonce) -> "NonceUsed"
                   [] verified # "Ok" -> verified
                   [] tokens[ctx.treasury_snrgtoken].mint # presale.snrg_mint
                      \/ tokens[ctx.buyer_snrgtoken].mint # presale.snrg_mint -> "InvalidMint"
                   [] tokens[ctx.buyer_snrgtoken].owner # ctx.buyer -> "InvalidOwner"
                   [] tokens[ctx.treasury_snrgtoken].amount < snrg_amount
                         -> "InsufficientBalance"
                   [] deliver_snrg_err(tokens, ctx, snrg_amount) # "Ok"
                         -> deliver_snrg_err(tokens, ctx, snrg_amount)
                   [] ~presale_fits(Len(presale.used_nonces) + 1,
                                    Cardinality(presale.supported_tokens))
                         -> "AccountDidNotSerialize"
                   [] OTHER -> "Ok"
        ELSE LET checks == buy_checks_B(payment_amount, snrg_amount, deadline)
             IN  CASE ~PreContextB(ctx) -> "ConstraintRaw"
                   [] checks # "Ok" -> checks
                   [] check_purchase_limits_err(snrg_amount) # "Ok"
                         -> check_purchase_limits_err(snrg_amount)
                   [] verified # "Ok" -> verified
                   [] lamports[ctx.buyer] < payment_amount -> "SystemInsufficientFunds"
                   [] OTHER -> deliver_snrg_err(tokens, ctx, snrg_amount)

\* the Presale, NonceState and BuyerState / PurchaseTracking accounts after a
\* purchase
purchase_recorded(buyer, nonce) ==
    IF presale.variant = "A"
    THEN [presale EXCEPT
            !.used_nonces = Append(@, nonce),
            !.buyer_state = PutAccount(@, buyer,
                                check_and_update_rate_limits(BuyerStateOf(buyer)))]
    ELSE [presale EXCEPT
            !.nonce_state = PutAccount(@, nonce_state_of(buyer),
                                [used_nonces |-> nonces_used(buyer) \cup {nonce}]),
            !.buyer_state = PutAccount(@, buyer,
                                update_purchase_tracking(BuyerStateOf(buyer)))]

\* A takes no payment in buy_with_native; B moves payment_amount lamports from
\* the buyer to the treasury.
buy_with_native(ctx, payment_amount, snrg_amount, nonce, deadline, signature) ==
    /\ buy_with_native_err(ctx, payment_amount, snrg_amount, nonce, deadline,
                           signature) = "Ok"
    /\ presale' = purchase_recorded(ctx.buyer, nonce)
    /\ lamports' = IF presale.variant = "A" THEN lamports
                   ELSE [lamports EXCEPT ![ctx.buyer] = @ - payment_amount,
                                         ![presale.treasury] = @ + payment_amount]
    /\ tokens' = deliver_snrg(tokens, ctx, snrg_amount)
    /\ pre_hist' = [pre_hist EXCEPT !.bought[nonce] = @ + 1]
    /\ UNCHANGED <<now, NotPresale>>

buy_with_token_err(ctx, payment_amount, snrg_amount, nonce, deadline, signature) ==
    LET message == build_message_hash(ctx.buyer, ctx.payment_mint, payment_amount,
                                      snrg_amount, nonce, deadline)
        verified == verify_signature_err(message, signature, ctx.buyer, nonce)
        paid == payment_transfer(ctx, payment_amount)
    IN  IF presale.variant = "A"
        THEN LET checks == buy_checks_A(ctx, payment_amount, snrg_amount, nonce, signature)
             IN  CASE ctx.treasury # presale.treasury -> "ConstraintHasOne"
                   [] \E a \in {ctx.buyer_payment_token, ctx.treasury_payment_token,
                                ctx.treasury_snrgtoken, ctx.buyer_snrgtoken} :
                         ~IsAccount(tokens, a) -> "AccountNotInitialized"
                   [] checks # "Ok" -> checks
                   [] ctx.payment_mint \notin presale.supported_tokens -> "UnsupportedToken"
                   [] ~nonce_unused(ctx.buyer, nonce) -> "NonceUsed"
                   [] verified # "Ok" -> verified
                   [] tokens[ctx.buyer_payment_token].mint # ctx.payment_mint
                      \/ tokens[ctx.treasury_payment_token].mint # ctx.payment_mint
                      \/ tokens[ctx.treasury_snrgtoken].mint # presale.snrg_mint
                      \/ tokens[ctx.buyer_snrgtoken].mint # presale.snrg_mint -> "InvalidMint"
                   [] tokens[ctx.buyer_payment_token].owner # ctx.buyer
                      \/ tokens[ctx.buyer_snrgtoken].owner # ctx.buyer -> "InvalidOwner"
                   [] tokens[ctx.buyer_payment_token].amount < payment_amount
                      \/ tokens[ctx.treasury_snrgtoken].amount < snrg_amount
                         -> "InsufficientBalance"
                   [] payment_transfer_err(ctx, payment_amount) # "Ok"
                         -> payment_transfer_err(ctx, payment_amount)
                   [] deliver_snrg_err(paid, ctx, snrg_amount) # "Ok"
                         -> deliver_snrg_err(paid, ctx, snrg_amount)
                   [] ~presale_fits(Len(presale.used_nonces) + 1,
                                    Cardinality(presale.supported_tokens))
                         -> "AccountDidNotSerialize"
                   [] OTHER -> "Ok"
        ELSE LET checks == buy_checks_B(payment_amount, snrg_amount, deadline)
             IN  CASE ~PreTokenContextB(ctx) -> "ConstraintRaw"
                   [] checks # "Ok" -> checks
                   [] ctx.payment_mint \notin presale.supported_tokens -> "TokenNotSupported"
                   [] check_purchase_limits_err(snrg_amount) # "Ok"
                         -> check_purchase_limits_err(snrg_amount)
                   [] verified # "Ok" -> verified
                   [] payment_transfer_err(ctx, payment_amount) # "Ok"
                         -> payment_transfer_err(ctx, payment_amount)
                   [] paid[ctx.treasury_payment_token].amount
                        < tokens[ctx.treasury_payment_token].amount + payment_amount
                         -> "UnderpaidTreasury"
                   [] OTHER -> deliver_snrg_err(paid, ctx, snrg_amount)

buy_with_token(ctx, payment_amount, snrg_amount, nonce, deadline, signature) ==
    /\ buy_with_token_err(ctx, payment_amount, snrg_amount, nonce, deadline,
                          signature) = "Ok"
    /\ presale' = purchase_recorded(ctx.buyer, nonce)
    /\ tokens' = deliver_snrg(payment_transfer(ctx, payment_amount), ctx, snrg_amount)
    /\ pre_hist' = [pre_hist EXCEPT !.bought[nonce] = @ + 1]
    /\ UNCHANGED <<now, lamports, NotPresale>>

\* The errors a purchase handler returns before it has written to any account.
\* A: everything up to the cooldown check.  B: everything up to the end of
\* _verify_signature, which records the nonce as its last step.
PreUntouchedErrs ==
    IF presale.variant = "A"
    THEN {"ConstraintHasOne", "AccountNotInitialized", "InvalidAmount",
          "InvalidSignature", "Closed", "Paused", "InvalidNonce", "AmountTooLow",
          "AmountTooHigh", "PurchaseTooSoon"}
    ELSE {"ConstraintRaw", "PresaleClosed", "Paused", "ZeroAmount",
          "SignatureExpired", "TokenNotSupported", "AmountTooLow", "AmountTooHigh",
          "InvalidNonce", "NonceAlreadyUsed", "InvalidSignature"}

\* The Presale, NonceState and BuyerState accounts as the handler holds them
\* when it returns err.  A: check_and_update_rate_limits has reset the daily
\* window before DailyLimitExceeded and has counted the purchase before every
\* later error; the nonce is pushed before the signature is verified.  B: the
\* nonce is inserted before the payment, the tracking is updated last.
purchase_attempted(buyer, nonce, err) ==
    CASE err = "Ok" -> purchase_recorded(buyer, nonce)
      [] err \in PreUntouchedErrs -> presale
      [] presale.variant = "B" ->
            [presale EXCEPT
                !.nonce_state = PutAccount(@, nonce_state_of(buyer),
                                    [used_nonces |-> nonces_used(buyer) \cup {nonce}])]
      [] err = "DailyLimitExceeded" ->
            [presale EXCEPT
                !.buyer_state = PutAccount(@, buyer, rate_window(BuyerStateOf(buyer)))]
      [] err \in {"UnsupportedToken", "NonceUsed"} ->
            [presale EXCEPT
                !.buyer_state = PutAccount(@, buyer,
                                    check_and_update_rate_limits(BuyerStateOf(buyer)))]
      [] OTHER -> purchase_recorded(buyer, nonce)

\* the errors returned before any transfer is asked for
PreUnpaidErrs ==
    PreUntouchedErrs
    \cup {"DailyLimitExceeded", "UnsupportedToken", "NonceUsed", "InvalidMint",
          "InvalidOwner", "SystemInsufficientFunds"}
    \cup (IF presale.variant = "A" THEN {"InsufficientBalance"} ELSE {})

\* the token accounts as the transfers made before err have left them;
\* `paid` is the accounts after the payment leg (tokens itself for a native
\* purchase) and paid_err is the outcome of that leg
transfers_attempted(ctx, paid, paid_err, snrg_amount, err) ==
    CASE err \in PreUnpaidErrs \/ paid_err # "Ok" -> tokens
      [] err \in {"Ok", "InexactDelivery", "AccountDidNotSerialize"}
            -> deliver_snrg(paid, ctx, snrg_amount)
      [] OTHER -> paid

\* B's system transfer of buy_with_native
lamports_attempted(ctx, payment_amount, err) ==
    IF presale.variant = "A" \/ err \in PreUnpaidErrs
    THEN lamports
    ELSE [lamports EXCEPT ![ctx.buyer] = @ - payment_amount,
                          ![presale.treasury] = @ + payment_amount]

\* an instruction whose failure does not undo what it wrote
committed_always(err, before, attempted) == attempted

\* What an instruction leaves behind: the handlers return Result<()>, and an
\* Err aborts the transaction, so that neither the writes to the accounts of
\* the context nor the transfers made by CPI are kept.
committed(err, before, attempted) ==
    IF err = "Ok" THEN attempted ELSE before

\* a call of buy_with_native that returns an error
buy_with_native_rejected(ctx, payment_amount, snrg_amount, nonce, deadline, signature) ==
    LET err == buy_with_native_err(ctx, payment_amount, snrg_amount, nonce,
                                   deadline, signature)
    IN  /\ err # "Ok"
        /\ presale' = committed(err, presale, purchase_attempted(ctx.buyer, nonce, err))
        /\ tokens' = committed(err, tokens,
                        transfers_attempted(ctx, tokens, "Ok", snrg_amount, err))
        /\ lamports' = committed(err, lamports,
                        lamports_attempted(ctx, payment_amount, err))
        /\ UNCHANGED <<now, pre_hist, NotPresale>>

\* a call of buy_with_token that returns an error
buy_with_token_rejected(ctx, payment_amount, snrg_amount, nonce, deadline, signature) ==
    LET err == buy_with_token_err(ctx, payment_amount, snrg_amount, nonce,
                                  deadline, signature)
    IN  /\ err # "Ok"
        /\ presale' = committed(err, presale, purchase_attempted(ctx.buyer, nonce, err))
        /\ tokens' = committed(err, tokens,
                        IF err \in PreUnpaidErrs THEN tokens
                        ELSE transfers_attempted(ctx, payment_transfer(ctx, payment_amount),
                                 payment_transfer_err(ctx, payment_amount),
                                 snrg_amount, err))
        /\ UNCHANGED <<now, lamports, pre_hist, NotPresale>>

PreCallers == {Treasury, "alice"}

PreSnrgOf == [u \in PreBuyers |-> IF u = "alice" THEN "alice_ata" ELSE "bob_ata"]

PrePayOf == [u \in PreBuyers |-> IF u = "alice" THEN "alice_pay" ELSE "bob_pay"]

\* the accounts a buyer passes: their own, and the presale's
PreCtx(buyer) ==
    [buyer |-> buyer,
     treasury |-> Treasury,
     treasury_authority |-> PresaleSigner,
     treasury_snrgtoken |-> "treasury_snrg",
     buyer_snrgtoken |-> PreSnrgOf[buyer],
     payment_mint |-> PayMint,
     buyer_payment_token |-> PrePayOf[buyer],
     treasury_payment_token |-> "treasury_pay"]

\* a deadline that passes one cooldown before the horizon
PreDeadline == Genesis + (PreMaxTicks - 1) * PURCHASE_COOLDOWN

\* well-formed orders, and orders with one bad field
PreOrders ==
    [buyer : PreBuyers, payment_amount : {1}, snrg_amount : {MIN_PURCHASE_AMOUNT},
     nonce : 1..PreMaxNonce, deadline : {PreDeadline}]

PreBadOrders ==
    LET o == [buyer |-> "alice", payment_amount |-> 1,
              snrg_amount |-> MIN_PURCHASE_AMOUNT, nonce |-> 1,
              deadline |-> PreDeadline]
    IN  {[o EXCEPT !.payment_amount = 0], [o EXCEPT !.snrg_amount = 0],
         [o EXCEPT !.snrg_amount = MIN_PURCHASE_AMOUNT - 1],
         [o EXCEPT !.snrg_amount = MIN_PURCHASE_AMOUNT + 1],
         [o EXCEPT !.nonce = 0], [o EXCEPT !.deadline = 0]}

\* the digest the signer signs for order o paid in payment_token
OrderDigest(o, payment_token) ==
    signed_digest(build_message_hash(o.buyer, payment_token, o.payment_amount,
                                     o.snrg_amount, o.nonce, o.deadline))

PreSigLen == IF presale.variant = "A" THEN 64 ELSE 65

\* Signatures a buyer may submit with order o: by either key over the order
\* itself, by the first key over the order under another nonce or over another
\* buyer's order; and in A (signature: Vec<u8>) one of the wrong length.
PreSignatures(o, payment_token) ==
    LET others == {OrderDigest([o EXCEPT !.nonce = o.nonce + 1], payment_token),
                   OrderDigest([o EXCEPT !.buyer = "carol"], payment_token)}
    IN  {Signature(PreSigLen, k, OrderDigest(o, payment_token)) : k \in PreKeys}
        \cup {Signature(PreSigLen, "signer_key", d) : d \in others}
        \cup (IF presale.variant = "A"
              THEN {Signature(63, "signer_key", OrderDigest(o, payment_token))}
              ELSE {})

\* the purchase calls offered in a state
PreBuyCalls(payment_token) ==
    LET Call(o, ctx, s) == [ctx |-> ctx, order |-> o, signature |-> s]
        good(o) == Signature(PreSigLen, "signer_key", OrderDigest(o, payment_token))
    IN  UNION {{Call(o, PreCtx(o.buyer), s) : s \in PreSignatures(o, payment_token)} :
                  o \in PreOrders}
        \cup {Call(o, PreCtx(o.buyer), good(o)) : o \in PreBadOrders}
        \cup {Call(o, [PreCtx(o.buyer) EXCEPT !.treasury_authority = o.buyer], good(o)) :
                o \in PreOrders}
        \cup {Call(o, [PreCtx(o.buyer) EXCEPT !.buyer_snrgtoken = "treasury_snrg"], good(o)) :
                o \in PreOrders}

native_err(c) ==
    buy_with_native_err(c.ctx, c.order.payment_amount, c.order.snrg_amount,
                        c.order.nonce, c.order.deadline, c.signature)

token_err(c) ==
    buy_with_token_err(c.ctx, c.order.payment_amount, c.order.snrg_amount,
                       c.order.nonce, c.order.deadline, c.signature)

InitPresale ==
    /\ now = Genesis
    /\ \E m \in PreSnrgAssets("B") : tokens = PreTokensInit(m)
    /\ PresaleInit
    /\ tokens["treasury_snrg"].mint \in PreSnrgAssets(presale.variant)
    /\ timelock = NoAccounts /\ tl_hist = NoAccounts
    /\ registry = NoAccounts /\ reg_hist = NoAccounts
    /\ staking = NoAccounts /\ stk_hist = NoAccounts
    /\ swap = NoAccounts /\ swp_hist = NoAccounts
    /\ token_state = NoAccounts

NextPresale ==
    \/ PreTick /\ UNCHANGED <<tokens, PresaleVars, NotPresale>>
    \/ \E c \in PreCallers, k \in PreKeys \cup {DefaultKey} : set_signer(c, k)
    \/ \E c \in PreCallers, open \in BOOLEAN : set_open(c, open)
    \/ \E c \in PreCallers, m \in {0, 1000} :
          set_max_purchase_amount(c, m)
    \/ \E c \in PreCallers, m \in {PayMint, presale.snrg_mint, DefaultKey} :
          add_supported_token(c, m)
    \/ \E c \in PreCallers, m \in {PayMint, presale.snrg_mint} : remove_supported_token(c, m)
    \/ \E c \in PreCallers, m \in {PayMint, presale.snrg_mint, DefaultKey}, b \in BOOLEAN :
          set_supported_token(c, m, b)
    \/ \E c \in PreBuyCalls(DefaultKey) :
          buy_with_native(c.ctx, c.order.payment_amount, c.order.snrg_amount,
                          c.order.nonce, c.order.deadline, c.signature)
    \/ \E c \in PreBuyCalls(PayMint) :
          buy_with_token(c.ctx, c.order.payment_amount, c.order.snrg_amount,
                         c.order.nonce, c.order.deadline, c.signature)
    \/ \E c \in PreCallers : pre_pause(c)
    \/ \E c \in PreCallers : pre_unpause(c)

SpecPresale == InitPresale /\ [][NextPresale]_vars

\* every nonce consumed so far, in whichever record holds it
UsedNonces ==
    IF presale.variant = "A"
    THEN {presale.used_nonces[i] : i \in DOMAIN presale.used_nonces}
    ELSE UNION {presale.nonce_state[a].used_nonces : a \in DOMAIN presale.nonce_state}

Authentic(c, payment_token) ==
    /\ c.signature.len = PreSigLen
    /\ c.signature.key = presale.signer
    /\ c.signature.signed = OrderDigest(c.order, payment_token)

\* C3: a purchase whose signature was not made by the configured signer over
\* the submitted order does not succeed; where the same call with the signer's
\* signature over the order would succeed, it fails with InvalidSignature.
C3_SignatureRequired ==
    /\ \A c \in PreBuyCalls(DefaultKey) :
          ~Authentic(c, DefaultKey) =>
              /\ native_err(c) # "Ok"
              /\ native_err([c EXCEPT !.signature =
                     Signature(PreSigLen, presale.signer, OrderDigest(c.order, DefaultKey))]) = "Ok"
                 => native_err(c) = "InvalidSignature"
    /\ \A c \in PreBuyCalls(PayMint) :
          ~Authentic(c, PayMint) =>
              /\ token_err(c) # "Ok"
              /\ token_err([c EXCEPT !.signature =
                     Signature(PreSigLen, presale.signer, OrderDigest(c.order, PayMint))]) = "Ok"
                 => token_err(c) = "InvalidSignature"

\* the outcome of purchase call c paid in payment_token
PreOutcome(c, payment_token) ==
    IF payment_token = DefaultKey THEN native_err(c) ELSE token_err(c)

\* C18: in B, a purchase that succeeds raises the buyer's SNRG balance by
\* exactly snrg_amount.  When the asset delivers another amount, no purchase
\* succeeds, and no payment, nonce or purchase tracking is ever committed.
C18_ExactDelivery ==
    /\ [](presale.variant = "B" /\ presale.snrg_mint = FeeMint =>
            /\ \A p \in {DefaultKey, PayMint} : \A c \in PreBuyCalls(p) :
                  PreOutcome(c, p) # "Ok"
            /\ lamports[presale.treasury] = 0
            /\ tokens["treasury_pay"].amount = 0
            /\ \A u \in PreBuyers : tokens[PreSnrgOf[u]].amount = 0
            /\ presale.nonce_state = NoAccounts
            /\ presale.buyer_state = NoAccounts)
    /\ [][presale.variant = "B" =>
            \A n \in DOMAIN pre_hist.bought :
                pre_hist'.bought[n] > pre_hist.bought[n] =>
                    \E p \in {DefaultKey, PayMint} : \E c \in PreBuyCalls(p) :
                        /\ c.order.nonce = n
                        /\ PreOutcome(c, p) = "Ok"
                        /\ tokens'[c.ctx.buyer_snrgtoken].amount
                              = tokens[c.ctx.buyer_snrgtoken].amount + c.order.snrg_amount]_vars

\* B selling a fee-deducting asset: a token purchase that passes every check
\* and the payment leg is refused at the delivery
C18_Witness ==
    /\ presale.variant = "B"
    /\ presale.snrg_mint = FeeMint
    /\ \E c \in PreBuyCalls(PayMint) : token_err(c) = "InexactDelivery"

(***************************************************************************)
(* The daily purchase limit.  SpecPresaleDaily is the presale after         *)
(* initialize, opened or closed by set_open, with one buyer making a run of *)
(* native purchases under fresh nonces, one cooldown apart at the closest,  *)
(* and with the clock reaching the day after the first purchase.            *)
(***************************************************************************)
\* the purchases of a run: one more than the daily limit
PreDailyPurchases == 11

PreDailyInstants ==
    {Genesis + k * PURCHASE_COOLDOWN : k \in 0..(PreDailyPurchases - 1)}
    \cup {Genesis + DAY}

PreDailyTick ==
    \E t \in PreDailyInstants :
        /\ t > now
        /\ now' = t

PreDailyOrders ==
    [buyer : {"alice"}, payment_amount : {1}, snrg_amount : {MIN_PURCHASE_AMOUNT},
     nonce : 1..PreDailyPurchases, deadline : {Genesis + 2 * DAY}]

PreDailyCalls ==
    {[ctx |-> PreCtx(o.buyer), order |-> o,
      signature |-> Signature(PreSigLen, "signer_key", OrderDigest(o, DefaultKey))] :
        o \in PreDailyOrders}

\* the purchases made so far
PrePurchases == Cardinality({n \in DOMAIN pre_hist.bought : pre_hist.bought[n] > 0})

InitPresaleDaily ==
    /\ now = Genesis
    /\ tokens = [PreTokensInit(SnrgMint) EXCEPT
                    !["treasury_snrg"].amount = PreDailyPurchases * 1000]
    /\ \E v \in {"A", "B"} : presale = PresaleAfterInitialize(v)
    /\ pre_hist = [bought |-> [n \in 1..PreDailyPurchases |-> 0]]
    /\ lamports = [k \in PreBuyers \cup {Treasury} |->
                      IF k = Treasury THEN 0 ELSE PreDailyPurchases]
    /\ timelock = NoAccounts /\ tl_hist = NoAccounts
    /\ registry = NoAccounts /\ reg_hist = NoAccounts
    /\ staking = NoAccounts /\ stk_hist = NoAccounts
    /\ swap = NoAccounts /\ swp_hist = NoAccounts
    /\ token_state = NoAccounts

NextPresaleDaily ==
    \/ PreDailyTick /\ UNCHANGED <<tokens, PresaleVars, NotPresale>>
    \/ \E c \in PreCallers, open \in BOOLEAN : set_open(c, open)
    \/ \E c \in PreDailyCalls :
          /\ c.order.nonce <= PrePurchases + 1
          /\ buy_with_native(c.ctx, c.order.payment_amount, c.order.snrg_amount,
                             c.order.nonce, c.order.deadline, c.signature)

SpecPresaleDaily == InitPresaleDaily /\ [][NextPresaleDaily]_vars

\* C19: purchase_count_today never exceeds MAX_PURCHASES_PER_DAY, and once a
\* buyer has made that many purchases since the last daily reset, less than 24
\* hours ago, every further purchase the buyer attempts (the presale open, the
\* cooldown over) fails with DailyLimitExceeded.
C19_DailyLimit ==
    \A c \in PreDailyCalls :
        LET bs == BuyerStateOf(c.ctx.buyer) IN
        /\ bs.purchase_count_today <= MAX_PURCHASES_PER_DAY
        /\ (/\ bs.purchase_count_today >= MAX_PURCHASES_PER_DAY
            /\ now < bs.daily_purchase_reset + DAY
            /\ now >= bs.last_purchase_time + PURCHASE_COOLDOWN
            /\ presale.open)
              => native_err(c) = "DailyLimitExceeded"

\* C20: a purchase made 24 hours or more after the buyer's daily reset is not
\* refused for the daily limit, whatever purchase_count_today is, and leaves
\* purchase_count_today = 1 and the daily reset = now.
C20_DailyReset ==
    /\ [](\A c \in PreDailyCalls :
            now >= BuyerStateOf(c.ctx.buyer).daily_purchase_reset + DAY
                => native_err(c) # "DailyLimitExceeded")
    /\ [][\A c \in PreDailyCalls :
            (/\ pre_hist'.bought[c.order.nonce] > pre_hist.bought[c.order.nonce]
             /\ now >= BuyerStateOf(c.ctx.buyer).daily_purchase_reset + DAY)
                => /\ presale'.buyer_state[c.ctx.buyer].purchase_count_today = 1
                   /\ presale'.buyer_state[c.ctx.buyer].daily_purchase_reset = now]_vars

\* the eleventh purchase, a day after the first and after ten within the day
C20_Witness ==
    /\ PrePurchases = MAX_PURCHASES_PER_DAY + 1
    /\ now = Genesis + DAY
    /\ BuyerStateOf("alice").purchase_count_today = 1
    /\ BuyerStateOf("alice").daily_purchase_reset = now

\* the purchase step of call c paid in payment_token
PrePurchaseStep(c, payment_token) ==
    IF payment_token = DefaultKey
    THEN buy_with_native(c.ctx, c.order.payment_amount, c.order.snrg_amount,
                         c.order.nonce, c.order.deadline, c.signature)
    ELSE buy_with_token(c.ctx, c.order.payment_amount, c.order.snrg_amount,
                        c.order.nonce, c.order.deadline, c.signature)

\* the buyer's cooldown since their last purchase is still running
PreCoolingDown(buyer) ==
    now < BuyerStateOf(buyer).last_purchase_time + PURCHASE_COOLDOWN

\* C21: a purchase attempted less than PURCHASE_COOLDOWN after the buyer's last
\* purchase does not succeed, and a well-formed order submitted then to the
\* open, unpaused presale is refused with PurchaseTooSoon; every purchase that
\* succeeds is made at last_purchase_time + PURCHASE_COOLDOWN or later.
C21_Cooldown ==
    /\ [](\A p \in {DefaultKey, PayMint} : \A c \in PreBuyCalls(p) :
            PreCoolingDown(c.ctx.buyer) =>
                /\ PreOutcome(c, p) # "Ok"
                /\ (/\ presale.open /\ ~presale.paused
                    /\ c.order \in PreOrders
                    /\ c.signature.len = PreSigLen)
                      => PreOutcome(c, p) = "PurchaseTooSoon")
    /\ [][\A p \in {DefaultKey, PayMint} : \A c \in PreBuyCalls(p) :
            PrePurchaseStep(c, p) =>
                now >= BuyerStateOf(c.ctx.buyer).last_purchase_time + PURCHASE_COOLDOWN]_vars


(***************************************************************************)
(* Rejected purchases.  SpecPresaleRejected is the presale under the        *)
(* treasury's set_open, pause, unpause and listing of the payment token,    *)
(* with every purchase call either carried out or rejected.                 *)
(***************************************************************************)
NextPresaleRejected ==
    \/ PreTick /\ UNCHANGED <<tokens, PresaleVars, NotPresale>>
    \/ \E open \in BOOLEAN : set_open(Treasury, open)
    \/ add_supported_token(Treasury, PayMint)
    \/ set_supported_token(Treasury, PayMint, TRUE)
    \/ pre_pause(Treasury)
    \/ pre_unpause(Treasury)
    \/ \E p \in {DefaultKey, PayMint} : \E c \in PreBuyCalls(p) : PrePurchaseStep(c, p)
    \/ \E c \in PreBuyCalls(DefaultKey) :
          buy_with_native_rejected(c.ctx, c.order.payment_amount, c.order.snrg_amount,
                                   c.order.nonce, c.order.deadline, c.signature)
    \/ \E c \in PreBuyCalls(PayMint) :
          buy_with_token_rejected(c.ctx, c.order.payment_amount, c.order.snrg_amount,
                                  c.order.nonce, c.order.deadline, c.signature)

SpecPresaleRejected == InitPresale /\ [][NextPresaleRejected]_vars

\* the rejected call c paid in payment_token
PreRejectedStep(c, payment_token) ==
    IF payment_token = DefaultKey
    THEN buy_with_native_rejected(c.ctx, c.order.payment_amount, c.order.snrg_amount,
                                  c.order.nonce, c.order.deadline, c.signature)
    ELSE buy_with_token_rejected(c.ctx, c.order.payment_amount, c.order.snrg_amount,
                                 c.order.nonce, c.order.deadline, c.signature)

\* what the handler of call c has written to the presale's accounts when it
\* returns
PreAttempted(c, payment_token) ==
    purchase_attempted(c.ctx.buyer, c.order.nonce, PreOutcome(c, payment_token))

C23_ReplayError ==
    \A p \in {DefaultKey, PayMint} : \A c \in PreBuyCalls(p) :
        (c.order.nonce \in DOMAIN pre_hist.bought /\ pre_hist.bought[c.order.nonce] > 0)
            => PreOutcome(c, p) \in {"NonceUsed", "NonceAlreadyUsed"}

\* C33: set_open(v) while open already equals v changes no state and emits no
\* OpenSet event, returning SameState in A and success in B; so after a
\* successful set_open(v) a second set_open(v), by anyone allowed to call it,
\* adds nothing to the state or to the events of the first.
C33_SetOpenIdempotent ==
    /\ [](\A c \in PreCallers, v \in BOOLEAN :
            presale.open = v =>
            /\ set_open_events(c, v) = <<>>
            /\ set_open_err(c, v) =
                  IF pre_admin_err(c) # "Ok" THEN pre_admin_err(c)
                  ELSE IF presale.variant = "A" THEN "SameState" ELSE "Ok")
    /\ [][\A c \in PreCallers, v \in BOOLEAN :
            set_open(c, v) =>
            /\ presale.open = v => vars' = vars
            /\ presale'.open = v
            /\ \A d \in PreCallers :
                  /\ set_open_events(d, v)' = <<>>
                  /\ set_open_err(d, v)' \in {"ConstraintRaw", "SameState", "Ok"}
                  /\ set_open_err(d, v)' = "Ok" =>
                        [presale' EXCEPT !.open = v] = presale']_vars

\* the presale is open and B accepts another set_open(true) from its treasury
\* as a no-op
C33_Witness ==
    /\ presale.variant = "B"
    /\ presale.open
    /\ set_open_err(Treasury, TRUE) = "Ok"
    /\ set_open_events(Treasury, TRUE) = <<>>

(***************************************************************************)
(* snrg_swap (src/solana/programs/snrg_swap).                              *)
(***************************************************************************)
FINALIZE_DELAY == 48 * 60 * 60
REOPEN_COOLDOWN == 7 * 24 * 60 * 60

\* [0u8; 32]
ZeroRoot == "zero_root"

SwpRoots == {ZeroRoot, "root_1", "root_2"}

SwpUsers == {"alice", "bob"}

\* The clock jumps between multiples of the two delays.
SwpMaxDelays == 2
SwpMaxCooldowns == 1

SwpInstants ==
    {Genesis + i * FINALIZE_DELAY + j * REOPEN_COOLDOWN :
        i \in 0..SwpMaxDelays, j \in 0..SwpMaxCooldowns}

SwpTick ==
    /\ \E t \in SwpInstants : t > now /\ now' = t

SwpBalance == 2

SwpTokensInit ==
    [a \in {"alice_ata", "bob_ata", "bob_other"} |->
        CASE a = "alice_ata" -> TokenAccount("alice", SnrgMint, SwpBalance)
          [] a = "bob_ata" -> TokenAccount("bob", SnrgMint, SwpBalance)
          [] a = "bob_other" -> TokenAccount("bob", OtherMint, SwpBalance)]

\* initialize.  validate_initialize runs before the handler's body and compares
\* the treasury passed with swap.treasury of the account just created, which
\* is zeroed: initialize succeeds only with treasury = Pubkey::default(), and
\* that is the key AdminAction then requires to sign.
SwapInit ==
    /\ swap = [snrg_mint |-> SnrgMint,
               treasury |-> DefaultKey,
               finalized |-> FALSE,
               paused |-> FALSE,
               total_burned |-> 0,
               merkle_root |-> ZeroRoot,
               proposed_root |-> ZeroRoot,
               proposed_at |-> 0,
               burn_commitment |-> ZeroRoot,
               last_finalized_at |-> 0,
               user_burn |-> NoAccounts]
    /\ swp_hist = [finalized_at |-> 0, reopened_at |-> 0]

\* AdminAction: constraint = authority.key() == swap.treasury
swp_admin_err(caller) ==
    IF caller # swap.treasury THEN "ConstraintRaw" ELSE "Ok"

\* the SPL token program's Burn, signed by `signers`
token_burn_err(accts, account, mint, authority, signers, amount) ==
    CASE accts[account].mint # mint -> "TokenMintMismatch"
      [] accts[account].amount < amount -> "TokenInsufficientFunds"
      [] accts[account].owner # authority /\ accts[account].delegate # authority
            -> "TokenOwnerMismatch"
      [] accts[account].owner # authority /\ accts[account].delegated_amount < amount
            -> "TokenInsufficientFunds"
      [] authority \notin signers -> "TokenMissingRequiredSignature"
      [] OTHER -> "Ok"

token_burn(accts, account, amount) ==
    [accts EXCEPT ![account].amount = @ - amount]

\* the buyer's UserBurn.amount; init_if_needed gives a zeroed account
UserBurnOf(user) ==
    IF IsAccount(swap.user_burn, user) THEN swap.user_burn[user].amount ELSE 0

burn_err(user, user_token, snrg_mint, amount) ==
    LET cpi == token_burn_err(tokens, user_token, snrg_mint, user, {user}, amount)
        actual_burned == tokens[user_token].amount
                            - token_burn(tokens, user_token, amount)[user_token].amount
    IN  CASE ~IsAccount(tokens, user_token) -> "AccountNotInitialized"
          [] swap.paused -> "Paused"
          [] swap.finalized -> "AlreadyFinalized"
          [] amount <= 0 -> "ZeroAmount"
          [] cpi # "Ok" -> cpi
          [] actual_burned # amount -> "InexactBurn"
          [] OTHER -> "Ok"

\* account_exit_always writes every account back.  account_exit is what an
\* instruction leaves in an account of its context: the handler's
\* value when the context declares the account mut (or init), the value it
\* found otherwise, since only those accounts are written back when the
\* instruction exits
account_exit_always(is_mut, found, written) == written

account_exit(is_mut, found, written) == IF is_mut THEN written ELSE found

\* Burn declares user_burn with init_if_needed and swap without mut: the
\* handler's swap.total_burned += amount is made on its copy of the account
burn(user, user_token, snrg_mint, amount) ==
    /\ burn_err(user, user_token, snrg_mint, amount) = "Ok"
    /\ tokens' = token_burn(tokens, user_token, amount)
    /\ swap' = [swap EXCEPT
                  !.user_burn = PutAccount(@, user, [amount |-> UserBurnOf(user) + amount]),
                  !.total_burned =
                      account_exit(FALSE, @, @ + amount)]
    /\ UNCHANGED <<now, swp_hist, NotSwap>>

propose_root_err(caller, root) ==
    CASE swp_admin_err(caller) # "Ok" -> swp_admin_err(caller)
      [] root = ZeroRoot -> "ZeroMerkleRoot"
      [] swap.finalized -> "AlreadyFinalized"
      [] swap.proposed_root # ZeroRoot -> "PendingRootExists"
      [] OTHER -> "Ok"

propose_root(caller, root) ==
    /\ propose_root_err(caller, root) = "Ok"
    /\ swap' = [swap EXCEPT !.proposed_root = root, !.proposed_at = now]
    /\ UNCHANGED <<now, tokens, swp_hist, NotSwap>>

\* a cancel that clears the proposed root and keeps its time
cancel_proposed_root_keeps_time(caller) ==
    /\ swp_admin_err(caller) = "Ok"
    /\ swap.proposed_root # ZeroRoot
    /\ swap' = [swap EXCEPT !.proposed_root = ZeroRoot]
    /\ UNCHANGED <<now, tokens, swp_hist, NotSwap>>

cancel_proposed_root_err(caller) ==
    CASE swp_admin_err(caller) # "Ok" -> swp_admin_err(caller)
      [] swap.proposed_root = ZeroRoot -> "NoPendingRoot"
      [] OTHER -> "Ok"

cancel_proposed_root(caller) ==
    /\ cancel_proposed_root_err(caller) = "Ok"
    /\ swap' = [swap EXCEPT !.proposed_root = ZeroRoot, !.proposed_at = 0]
    /\ UNCHANGED <<now, tokens, swp_hist, NotSwap>>

finalize_err(caller) ==
    CASE swp_admin_err(caller) # "Ok" -> swp_admin_err(caller)
      [] swap.finalized -> "AlreadyFinalized"
      [] swap.proposed_root = ZeroRoot -> "ZeroMerkleRoot"
      [] swap.total_burned <= 0 -> "ZeroAmount"
      [] now < swap.proposed_at + FINALIZE_DELAY -> "TimelockNotExpired"
      [] OTHER -> "Ok"

\* keccak over (proposed_root, total_burned, now, crate::ID): one commitment
\* per tuple of values
finalize(caller) ==
    /\ finalize_err(caller) = "Ok"
    /\ swap' = [swap EXCEPT
                  !.burn_commitment =
                      <<swap.proposed_root, swap.total_burned, now, "swap_program_id">>,
                  !.finalized = TRUE,
                  !.merkle_root = swap.proposed_root,
                  !.last_finalized_at = now,
                  !.proposed_root = ZeroRoot,
                  !.proposed_at = 0]
    /\ swp_hist' = [swp_hist EXCEPT !.finalized_at = now]
    /\ UNCHANGED <<now, tokens, NotSwap>>

\* now >= swap.last_finalized_at + REOPEN_COOLDOWN
reopen_cooldown_over == now >= swap.last_finalized_at + REOPEN_COOLDOWN

reopen_finalization_err(caller, new_root) ==
    CASE swp_admin_err(caller) # "Ok" -> swp_admin_err(caller)
      [] new_root = ZeroRoot -> "ZeroMerkleRoot"
      [] ~swap.finalized -> "NotFinalized"
      [] ~reopen_cooldown_over -> "ReopenCooldownActive"
      [] OTHER -> "Ok"

reopen_finalization(caller, new_root) ==
    /\ reopen_finalization_err(caller, new_root) = "Ok"
    /\ swap' = [swap EXCEPT
                  !.finalized = FALSE,
                  !.merkle_root = ZeroRoot,
                  !.burn_commitment = ZeroRoot,
                  !.proposed_root = new_root,
                  !.proposed_at = now]
    /\ swp_hist' = [swp_hist EXCEPT !.reopened_at = now]
    /\ UNCHANGED <<now, tokens, NotSwap>>

swp_pause_err(caller) ==
    CASE swp_admin_err(caller) # "Ok" -> swp_admin_err(caller)
      [] swap.paused -> "AlreadyPaused"
      [] OTHER -> "Ok"

swp_pause(caller) ==
    /\ swp_pause_err(caller) = "Ok"
    /\ swap' = [swap EXCEPT !.paused = TRUE]
    /\ UNCHANGED <<now, tokens, swp_hist, NotSwap>>

swp_unpause_err(caller) ==
    CASE swp_admin_err(caller) # "Ok" -> swp_admin_err(caller)
      [] ~swap.paused -> "NotPaused"
      [] OTHER -> "Ok"

swp_unpause(caller) ==
    /\ swp_unpause_err(caller) = "Ok"
    /\ swap' = [swap EXCEPT !.paused = FALSE]
    /\ UNCHANGED <<now, tokens, swp_hist, NotSwap>>

\* The keys that sign transactions: the key the Swap account names as its
\* treasury, and a user.
SwpCallers == {DefaultKey, "alice"}

\* the burn calls offered in a state
SwpBurnCalls ==
    [user : SwpUsers, user_token : {"alice_ata", "bob_ata", "bob_other"},
     snrg_mint : {SnrgMint, OtherMint}, amount : {0, 1}]

InitSwap ==
    /\ now = Genesis
    /\ tokens = SwpTokensInit
    /\ SwapInit
    /\ timelock = NoAccounts /\ tl_hist = NoAccounts
    /\ registry = NoAccounts /\ reg_hist = NoAccounts
    /\ staking = NoAccounts /\ stk_hist = NoAccounts
    /\ presale = NoAccounts /\ pre_hist = NoAccounts /\ lamports = NoAccounts
    /\ token_state = NoAccounts

\* finalize and reopen_finalization are offered in every state as well; they are
\* left out of the disjunction because no call of them succeeds (SwpNeverFinalized).
NextSwap ==
    \/ SwpTick /\ UNCHANGED <<tokens, SwapVars, NotSwap>>
    \/ \E c \in SwpBurnCalls : burn(c.user, c.user_token, c.snrg_mint, c.amount)
    \/ \E c \in SwpCallers, r \in SwpRoots : propose_root(c, r)
    \/ \E c \in SwpCallers : cancel_proposed_root(c)
    \/ \E c \in SwpCallers : swp_pause(c)
    \/ \E c \in SwpCallers : swp_unpause(c)

SpecSwap == InitSwap /\ [][NextSwap]_vars

\* total_burned stays 0, so every finalize fails (the treasury's with
\* ZeroMerkleRoot, ZeroAmount or earlier), finalized is never set and every
\* reopen_finalization fails
SwpNeverFinalized ==
    /\ swap.total_burned = 0
    /\ ~swap.finalized
    /\ \A c \in SwpCallers :
          /\ finalize_err(c) # "Ok"
          /\ \A r \in SwpRoots : reopen_finalization_err(c, r) # "Ok"

\* C36: total_burned is the sum over the users of their burned amounts;
\* neither total_burned nor a user's amount ever decreases; a burn(amount)
\* that succeeds raises total_burned and the caller's amount by exactly
\* amount and leaves every other user's amount as it was.
C36_TotalIsSumOfUserBurns ==
    /\ [](swap.total_burned = SumOver([u \in SwpUsers |-> UserBurnOf(u)], SwpUsers))
    /\ [][/\ swap'.total_burned >= swap.total_burned
          /\ \A u \in SwpUsers : UserBurnOf(u)' >= UserBurnOf(u)
          /\ \A c \in SwpBurnCalls :
                burn(c.user, c.user_token, c.snrg_mint, c.amount) =>
                /\ swap'.total_burned = swap.total_burned + c.amount
                /\ UserBurnOf(c.user)' = UserBurnOf(c.user) + c.amount
                /\ \A u \in SwpUsers \ {c.user} :
                      UserBurnOf(u)' = UserBurnOf(u)]_vars


ENDPOINT_CONFIRMATION_DELAY == 24 * 60 * 60

\* the supply that initialize mints to the treasury's token account
TokSupply == 2

TokCallers == {Treasury, "alice", "ep_staking"}

\* the token accounts after initialize
TokTokensInit ==
    [a \in {"treasury_ata", "staking_ata", "alice_ata", "alice_other"} |->
        CASE a = "treasury_ata" -> TokenAccount(Treasury, SnrgMint, TokSupply)
          [] a = "staking_ata" -> TokenAccount("ep_staking", SnrgMint, 0)
          [] a = "alice_ata" -> TokenAccount("alice", SnrgMint, 0)
          [] a = "alice_other" -> TokenAccount("alice", OtherMint, 1)]

\* initialize: the account is created zeroed; the handler writes mint,
\* treasury, bump and endpoints_configured.  Option<PendingProposal> is a
\* sequence of at most one proposal.
TokenStateInit ==
    token_state = [mint |-> SnrgMint,
                   treasury |-> Treasury,
                   staking |-> DefaultKey,
                   swap |-> DefaultKey,
                   presale |-> DefaultKey,
                   rescue_registry |-> DefaultKey,
                   endpoints_configured |-> FALSE,
                   pending_proposal |-> <<>>]

has_pending_proposal == token_state.pending_proposal # <<>>

validate_endpoint_inputs(staking_ep, swap_ep, presale_ep, rescue_registry, treasury) ==
    CASE DefaultKey \in {staking_ep, swap_ep, presale_ep, rescue_registry} -> "ZeroAddress"
      [] treasury \in {staking_ep, swap_ep, presale_ep, rescue_registry} -> "InvalidEndpoint"
      [] Cardinality({staking_ep, swap_ep, presale_ep, rescue_registry}) # 4
            -> "DuplicateEndpoints"
      [] OTHER -> "Ok"

\* has_one = treasury of ProposeEndpoints, ConfirmEndpoints and AuthTreasury
tok_admin_err(caller) ==
    IF caller # token_state.treasury THEN "ConstraintHasOne" ELSE "Ok"

propose_endpoints_err(caller, staking_ep, swap_ep, presale_ep, rescue_registry) ==
    CASE tok_admin_err(caller) # "Ok" -> tok_admin_err(caller)
      [] has_pending_proposal -> "PendingEndpoints"
      [] validate_endpoint_inputs(staking_ep, swap_ep, presale_ep, rescue_registry,
                                  token_state.treasury) # "Ok"
            -> validate_endpoint_inputs(staking_ep, swap_ep, presale_ep, rescue_registry,
                                        token_state.treasury)
      [] OTHER -> "Ok"

propose_endpoints(caller, staking_ep, swap_ep, presale_ep, rescue_registry) ==
    /\ propose_endpoints_err(caller, staking_ep, swap_ep, presale_ep, rescue_registry) = "Ok"
    /\ token_state' = [token_state EXCEPT !.pending_proposal =
            <<[staking |-> staking_ep, swap |-> swap_ep, presale |-> presale_ep,
               rescue_registry |-> rescue_registry,
               eta |-> now + ENDPOINT_CONFIRMATION_DELAY]>>]
    /\ UNCHANGED <<now, tokens, NotToken>>

\* confirm_endpoints without its require_gt!(now, proposal.eta)
confirm_endpoints_err_no_delay(caller) ==
    CASE tok_admin_err(caller) # "Ok" -> tok_admin_err(caller)
      [] token_state.pending_proposal = <<>> -> "NoPendingEndpoints"
      [] OTHER -> "Ok"

confirm_endpoints_err(caller) ==
    CASE tok_admin_err(caller) # "Ok" -> tok_admin_err(caller)
      [] token_state.pending_proposal = <<>> -> "NoPendingEndpoints"
      [] ~(now > token_state.pending_proposal[1].eta) -> "EndpointDelayActive"
      [] OTHER -> "Ok"

confirm_endpoints(caller) ==
    LET proposal == token_state.pending_proposal[1] IN
    /\ confirm_endpoints_err(caller) = "Ok"
    /\ token_state' = [token_state EXCEPT
            !.staking = proposal.staking,
            !.swap = proposal.swap,
            !.presale = proposal.presale,
            !.rescue_registry = proposal.rescue_registry,
            !.endpoints_configured = TRUE,
            !.pending_proposal = <<>>]
    /\ UNCHANGED <<now, tokens, NotToken>>

cancel_endpoint_proposal_err(caller) == tok_admin_err(caller)

\* AuthTreasury declares token_state without `mut`: the handler clears
\* pending_proposal in its deserialized copy, which is not written back to the
\* account when the instruction exits.
cancel_endpoint_proposal(caller) ==
    /\ cancel_endpoint_proposal_err(caller) = "Ok"
    /\ token_state' = account_exit(FALSE, token_state,
                                   [token_state EXCEPT !.pending_proposal = <<>>])
    /\ UNCHANGED <<now, tokens, NotToken>>

\* The restriction rules of transfer_restricted.  registry_info is the
\* rescue_registry account passed by the caller: [owned, executable] says
\* whether this program owns it and whether it is executable.
transfer_allowed(caller, from_owner, to_owner, registry_info) ==
    LET to_endpoint ==
            to_owner \in {token_state.staking, token_state.swap, token_state.presale}
        from_endpoint == from_owner \in {token_state.staking, token_state.swap}
        treasury_to_endpoint == from_owner = token_state.treasury /\ to_endpoint
        presale_distribution ==
            caller = token_state.presale /\ from_owner = token_state.treasury
        controlled_to_endpoint ==
            to_endpoint /\ (\/ from_owner = token_state.treasury
                            \/ caller = from_owner
                            \/ caller = to_owner)
        rescue_move ==
            /\ token_state.rescue_registry # DefaultKey
            /\ registry_info.owned /\ registry_info.executable
            /\ caller = token_state.rescue_registry
    IN  \/ treasury_to_endpoint
        \/ from_endpoint
        \/ controlled_to_endpoint
        \/ presale_distribution
        \/ rescue_move

transfer_restricted_err(caller, from_token, to_token, registry_info, amount) ==
    CASE ~(amount > 0) -> "InvalidAmount"
      [] ~token_state.endpoints_configured -> "TransfersDisabled"
      [] tokens[from_token].owner # caller -> "Unauthorized"
      [] tokens[from_token].mint # token_state.mint -> "InvalidMint"
      [] tokens[to_token].mint # token_state.mint -> "InvalidMint"
      [] ~(tokens[from_token].amount >= amount) -> "InsufficientFunds"
      [] ~transfer_allowed(caller, tokens[from_token].owner,
                           tokens[to_token].owner, registry_info)
            -> "TransferNotAllowed"
      [] OTHER -> token_transfer_err(tokens, from_token, to_token, caller,
                                     {caller}, amount)

transfer_restricted(caller, from_token, to_token, registry_info, amount) ==
    /\ transfer_restricted_err(caller, from_token, to_token, registry_info, amount)
          = "Ok"
    /\ tokens' = token_transfer(tokens, from_token, to_token, caller, amount)
    /\ UNCHANGED <<now, token_state, NotToken>>

\* burn of the token program (the swap program has a burn of its own)
tok_burn_err(caller, mint, token_account, amount) ==
    CASE ~(amount > 0) -> "InvalidAmount"
      [] ~token_state.endpoints_configured -> "TransfersDisabled"
      [] OTHER -> token_burn_err(tokens, token_account, mint, caller, {caller}, amount)

tok_burn(caller, mint, token_account, amount) ==
    /\ tok_burn_err(caller, mint, token_account, amount) = "Ok"
    /\ tokens' = token_burn(tokens, token_account, amount)
    /\ UNCHANGED <<now, token_state, NotToken>>

\* The calls offered to the token program: two well-formed sets of endpoints
\* and one for each way of being malformed; transfers and burns of 0 or 1
\* token between the token accounts, by each caller.
TokProposals ==
    {[staking |-> "ep_staking", swap |-> "ep_swap", presale |-> "ep_presale",
      rescue_registry |-> "ep_registry"],
     [staking |-> "ep_swap", swap |-> "ep_staking", presale |-> "ep_presale",
      rescue_registry |-> "ep_registry"],
     [staking |-> DefaultKey, swap |-> "ep_swap", presale |-> "ep_presale",
      rescue_registry |-> "ep_registry"],
     [staking |-> "ep_staking", swap |-> "ep_swap", presale |-> Treasury,
      rescue_registry |-> "ep_registry"],
     [staking |-> "ep_staking", swap |-> "ep_staking", presale |-> "ep_presale",
      rescue_registry |-> "ep_registry"]}
TokRegistryInfos == {[owned |-> FALSE, executable |-> TRUE],
                     [owned |-> TRUE, executable |-> FALSE]}
TokTransferCalls ==
    [caller : TokCallers, from : DOMAIN TokTokensInit, to : DOMAIN TokTokensInit,
     registry_info : TokRegistryInfos, amount : {0, 1}]
TokBurnCalls ==
    [caller : TokCallers, mint : {SnrgMint, OtherMint},
     token_account : DOMAIN TokTokensInit, amount : {0, 1}]

InitToken ==
    /\ now = Genesis
    /\ tokens = TokTokensInit
    /\ TokenStateInit
    /\ timelock = NoAccounts /\ tl_hist = NoAccounts
    /\ registry = NoAccounts /\ reg_hist = NoAccounts
    /\ staking = NoAccounts /\ stk_hist = NoAccounts
    /\ presale = NoAccounts /\ pre_hist = NoAccounts /\ lamports = NoAccounts
    /\ swap = NoAccounts /\ swp_hist = NoAccounts

NextToken ==
    \/ Tick /\ UNCHANGED <<tokens, TokenVars, NotToken>>
    \/ \E c \in TokCallers, p \in TokProposals :
          propose_endpoints(c, p.staking, p.swap, p.presale, p.rescue_registry)
    \/ \E c \in TokCallers : confirm_endpoints(c)
    \/ \E c \in TokCallers : cancel_endpoint_proposal(c)
    \/ \E c \in TokTransferCalls :
          transfer_restricted(c.caller, c.from, c.to, c.registry_info, c.amount)
    \/ \E c \in TokBurnCalls : tok_burn(c.caller, c.mint, c.token_account, c.amount)

SpecToken == InitToken /\ [][NextToken]_vars

\* the outcomes of the offered transfers and burns in the current state
TokTransferOutcome(c) ==
    transfer_restricted_err(c.caller, c.from, c.to, c.registry_info, c.amount)
TokBurnOutcome(c) == tok_burn_err(c.caller, c.mint, c.token_account, c.amount)

\* confirm_endpoints succeeds only with a pending proposal and now > eta, eta
\* being the time of its propose_endpoints plus 24 hours; endpoints_configured
\* is set by confirm_endpoints alone and never reset.
TokTimelockHolds ==
    /\ [](\A c \in TokCallers :
            confirm_endpoints_err(c) = "Ok" =>
            /\ has_pending_proposal
            /\ token_state.pending_proposal[1].eta < now)
    /\ [][/\ token_state.endpoints_configured => token_state'.endpoints_configured
          /\ token_state'.endpoints_configured # token_state.endpoints_configured
                => \E c \in TokCallers : confirm_endpoints(c)
          /\ (token_state'.pending_proposal # <<>>
              /\ token_state'.pending_proposal # token_state.pending_proposal)
                => token_state'.pending_proposal[1].eta
                      = now + ENDPOINT_CONFIRMATION_DELAY]_vars

\* C34 as stated: while endpoints_configured is false (no confirm_endpoints has
\* succeeded) every transfer_restricted and burn fails with TransfersDisabled.
C34_FailClosedAsStated ==
    ~token_state.endpoints_configured =>
        /\ \A c \in TokTransferCalls : TokTransferOutcome(c) = "TransfersDisabled"
        /\ \A c \in TokBurnCalls : TokBurnOutcome(c) = "TransfersDisabled"

\* C34: in every state reached without a successful confirm_endpoints,
\* transfer_restricted and burn fail: with InvalidAmount when amount is 0, with
\* TransfersDisabled otherwise; and the timelock of the endpoints holds.
C34_FailClosed ==
    /\ [](~token_state.endpoints_configured =>
            /\ \A c \in TokTransferCalls :
                  TokTransferOutcome(c) =
                      IF c.amount = 0 THEN "InvalidAmount" ELSE "TransfersDisabled"
            /\ \A c \in TokBurnCalls :
                  TokBurnOutcome(c) =
                      IF c.amount = 0 THEN "InvalidAmount" ELSE "TransfersDisabled")
    /\ TokTimelockHolds

\* the endpoints are configured and alice holds a token an endpoint sent her
C34_Witness ==
    /\ token_state.endpoints_configured
    /\ tokens["alice_ata"].amount > 0

====
